---- MODULE Spec2Model ----
(***************************************************************************)
(* ORP (Opening Range Protocol) strategy engine: runDay of                 *)
(* src/js/orp-strategy.js as a state machine, one step per candle of the   *)
(* day's loop and one step for the end-of-day close.                       *)
(*                                                                         *)
(* Units.  Prices, stops and P&L are integer cents (the code keeps them    *)
(* at two decimals with toFixed(2)).  Configuration multiples (1.5, 0.5,   *)
(* 0.33, 0.02 ...) are integers in hundredths.  A product of a price and a *)
(* multiple is therefore in 1/100 cent ("scaled"), and toFixed(2) is the   *)
(* operator Round2 from scaled values back to cents.  Time is in minutes   *)
(* (candle.time / 60000), one candle per minute.                           *)
(***************************************************************************)
EXTENDS Integers, Sequences, FiniteSets, TLC

\* ------------------------------------------------------------------ bounds
\* Prices are 1..MaxPrice cents; the loop processes at most MaxCandles candles
\* after the opening range.  Where the opening range itself is examined, the
\* day has at most MaxRange candles and the range at most MaxRange minutes.
\* Streams are seeded 0..MaxSeed and drawn from MaxDraws times.  A backtest
\* and a historical series run over at most MaxDays days; the trade lists of
\* the metrics and of the resampling have at most MaxTrades trades, the
\* resampling at most MaxSims simulations, and a tick simulator gives at most
\* MaxTicks ticks.
MaxPrice == 5
MaxCandles == 3
MaxRange == 2
MaxSeed == 5
MaxDraws == 3
MaxDays == 3
MaxTrades == 3
MaxSims == 3
MaxTicks == 3

\* --------------------------------------------------------------- constants
FixedShares == 100
Scale == 100

Null == [null |-> TRUE]

\* ------------------------------------------------------------------ inputs
Prices == 1..MaxPrice
Volumes == {1, 2}

\* The prices of a candle: low <= close <= high (the candle schema).  The
\* open is not read by runDay's loop.
PriceBars ==
  { b \in [high : Prices, low : Prices, close : Prices] :
      b.low <= b.close /\ b.close <= b.high }

\* A candle of the day.
Candles ==
  { [high |-> b.high, low |-> b.low, close |-> b.close, volume |-> v] :
      b \in PriceBars, v \in Volumes }

\* runDay's accountSize, in cents: the backtest passes its running equity,
\* which losses and costs can take below zero.
\* It is read only under fixed-risk sizing.
AccountSizes == {-100, 100, 3700}
StartingCapital == 10000000
Multiplier == 1664525
Increment == 1013904223
TotalMinutes == 390
OrPeriod == 15
BasePrice == 1895000
AvgVolume == 55000000
Commission == 50
Slippage == 200
McSeed == 42

DEFAULT_CONFIG ==
  [ openingRangeMinutes    |-> 15,
    confirmationType       |-> "close",
    volumeConfirmation     |-> TRUE,
    volumeMultiplier       |-> 150,
    riskRewardTargets      |-> <<150, 200, 300>>,
    positionSizing         |-> "fixed_risk",
    riskPerTrade           |-> 2,
    maxTradesPerDay        |-> 2,
    trailingStop           |-> TRUE,
    trailingStopActivation |-> 100,
    trailingStopDistance   |-> 50,
    usePartialProfits      |-> TRUE,
    partialProfitPercents  |-> <<33, 33, 34>>,
    maxHoldingMinutes      |-> 300,
    avoidFirstMinutes      |-> 0,
    stopLossBuffer         |-> 10,
    breakEvenAfterTarget1  |-> TRUE ]

\* config = { ...DEFAULT_CONFIG, ...config }
MergeConfig(overrides) ==
  [ k \in DOMAIN DEFAULT_CONFIG |->
      IF k \in DOMAIN overrides THEN overrides[k] ELSE DEFAULT_CONFIG[k] ]

\* The configurations runDay is called with: overrides merged over the
\* defaults.  Every override sets the opening range to one candle and
\* the stop buffer to one cent, so that the small price grid reaches the stop.
ConfigOverrides ==
  LET base == [openingRangeMinutes |-> 1, stopLossBuffer |-> 1]
      With(o) == [ k \in DOMAIN base \cup DOMAIN o |->
                     IF k \in DOMAIN o THEN o[k] ELSE base[k] ]
  IN { With([maxHoldingMinutes |-> 300]),
       With([positionSizing |-> "fixed_shares", usePartialProfits |-> FALSE,
             trailingStop |-> FALSE, maxHoldingMinutes |-> 2]),
       With([positionSizing |-> "fixed_shares", usePartialProfits |-> FALSE,
             trailingStopDistance |-> 200]),
       With([positionSizing |-> "fixed_shares", confirmationType |-> "wick",
             usePartialProfits |-> FALSE, volumeConfirmation |-> FALSE]),
       With([positionSizing |-> "fixed_shares", breakEvenAfterTarget1 |-> FALSE,
             riskRewardTargets |-> <<100, 200>>,
             partialProfitPercents |-> <<50, 50>>]),
       With([confirmationType |-> "wick", maxTradesPerDay |-> 1,
             volumeConfirmation |-> FALSE, trailingStop |-> FALSE,
             maxHoldingMinutes |-> 2]),
       With([positionSizing |-> "fixed_shares", avoidFirstMinutes |-> 1,
             usePartialProfits |-> FALSE, trailingStop |-> FALSE,
             maxHoldingMinutes |-> 2]) }

Configs == { MergeConfig(o) : o \in ConfigOverrides }

\* ------------------------------------------------------------------- state
VARIABLES
  config,       \* the merged configuration of this runDay call
  accountSize,  \* runDay's accountSize argument, in cents
  or,           \* the opening range computed from the first candles
  idx,          \* i: index of the next candle of the loop
  candle,       \* what the iteration that ran last read of candles[i]
  activeTrade,  \* the open trade, or NoTrade
  tradesCount,  \* entries taken today
  trades,       \* closed trades, in closing order
  signals,      \* the signal log
  pc,           \* "start" before runDay's first line, "loop" while candles
                \* remain, "done" once runDay returned
  dayCandles,   \* the candles argument while pc = "start"; the loop is then
                \* given its candles one at a time and this is <<>>
  streams,      \* MarketData: the variable s of each stream seededRandom made
  drawn,        \* MarketData: the values each stream has returned, in order
  gen,          \* MarketData: the locals of generateIntradayData, or those
                \* of a call of normalRandom
  hist,         \* MarketData: the locals of generateHistoricalData
  tick,         \* MarketData: the tick simulator and what its caller saw
  book,         \* Backtester: what run's loop has recorded of the day
  ledger,       \* Backtester: run's equity state over the days
  metrics,      \* Backtester: a call of computeMetrics
  mc            \* Backtester: the calls of monteCarloSimulation

strategyVars == <<config, accountSize, or, idx, candle, activeTrade,
                  tradesCount, trades, signals, pc, dayCandles>>

marketVars == <<streams, drawn, gen, hist, tick>>

backtestVars == <<book, ledger, metrics, mc>>

vars == <<strategyVars, marketVars, backtestVars>>

NoTrade == [direction |-> "NONE"]

\* The variable candle is what is kept of the candle the last iteration
\* processed.  Its time is idx - 1.  Its close is kept while a trade is open
\* after the iteration (the end-of-day close reads it, nothing else does),
\* when the candle broke out of the range, and when the holding time of the
\* trade had run out on a candle that did not breach its stop.
\* In place of its high, low and volume are the facts the iteration drew from
\* them: whether they breached the stop of the trade that was active when the
\* iteration began, and, when no trade was active, on which side of the
\* opening range the candle closed on confirming volume, and whether it broke
\* out of the range on a volume below the threshold of the confirmation.
NoCandle == [close |-> 0, stopHit |-> FALSE, breakout |-> "none", thin |-> FALSE]

\* ----------------------------------------------------------------- helpers
Max(a, b) == IF a >= b THEN a ELSE b
Min(a, b) == IF a <= b THEN a ELSE b
Abs(a) == IF a >= 0 THEN a ELSE -a
Sign(direction) == IF direction = "LONG" THEN 1 ELSE -1

Last(seq) == seq[Len(seq)]

RECURSIVE SeqSum(_)
SeqSum(s) == IF s = <<>> THEN 0 ELSE Head(s) + SeqSum(Tail(s))

SharesOf(exits) == [ k \in DOMAIN exits |-> exits[k].shares ]
PnlOf(exits) == [ k \in DOMAIN exits |-> exits[k].pnl ]

\* { ...rec, ...extra }
Spread(rec, extra) == extra @@ rec

\* parseFloat(x.toFixed(2)) of a scaled value x: the nearest cent.  A value
\* halfway between two cents goes up or down with the binary representation
\* of the double; tieUp is the direction it takes.
Round2(x, tieUp) ==
  LET q == x \div Scale
      r == x % Scale
  IN IF 2 * r < Scale THEN q
     ELSE IF 2 * r > Scale THEN q + 1
     ELSE IF tieUp THEN q + 1 ELSE q

\* Math.round(total / n): halves go up.
MathRound(total, n) == (2 * total + n) \div (2 * n)

\* ----------------------------------------------------- computeOpeningRange
\* Infinity and -Infinity of the loop's initial low and high: beyond every
\* price of the grid.
Infinity == MaxPrice + 1
NegInfinity == -Infinity

\* for (const c of orCandles): acc holds high, low and totalVolume.
RECURSIVE RangeLoop(_, _, _)
RangeLoop(orCandles, k, acc) ==
  IF k > Len(orCandles) THEN acc
  ELSE LET c == orCandles[k]
       IN RangeLoop(orCandles, k + 1,
                    [ high |-> IF c.high > acc.high THEN c.high ELSE acc.high,
                      low |-> IF c.low < acc.low THEN c.low ELSE acc.low,
                      totalVolume |-> acc.totalVolume + c.volume ])

\* candles: the day's candles; the result is Null when fewer than
\* openingRangeMinutes candles exist.
computeOpeningRange(candles, cfg) ==
  IF Len(candles) < cfg.openingRangeMinutes THEN Null
  ELSE LET orCandles == SubSeq(candles, 1, cfg.openingRangeMinutes)
           acc == RangeLoop(orCandles, 1,
                            [high |-> NegInfinity, low |-> Infinity, totalVolume |-> 0])
       IN [ high |-> Round2(acc.high * Scale, FALSE),
            low |-> Round2(acc.low * Scale, FALSE),
            rangeSize |-> Round2((acc.high - acc.low) * Scale, FALSE),
            avgVolume |-> MathRound(acc.totalVolume, Len(orCandles)),
            totalVolume |-> acc.totalVolume,
            rangeEndTime |-> Len(orCandles) - 1 ]

\* --------------------------------------------------- calculatePositionSize
\* accountSize in cents, riskPercent in hundredths, prices in cents.
calculatePositionSize(account, riskPercent, entryPrice, stopPrice) ==
  LET riskAmount == account * riskPercent
      riskPerShare == Abs(entryPrice - stopPrice)
  IN IF riskPerShare <= 0 THEN 0
     ELSE riskAmount \div (riskPerShare * Scale)

\* ------------------------------------------------- runDay: the active trade
\* The outcome of the stop and time checks: the local exitPrice / exitReason.
\* set = FALSE is exitPrice === null.
NoExit == [set |-> FALSE, price |-> 0, reason |-> ""]

\* JavaScript truthiness of exitPrice: null and 0 are falsy.
Truthy(exit) == exit.set /\ exit.price # 0

StopHit(trade, c) ==
  IF trade.direction = "LONG" THEN c.low <= trade.currentStop
  ELSE c.high >= trade.currentStop

\* Mutant: the exit is booked at the candle's extreme, not at the stop.
CheckStopLossAtExtreme(trade, c) ==
  IF StopHit(trade, c)
  THEN [set |-> TRUE,
        price |-> IF trade.direction = "LONG" THEN c.low ELSE c.high,
        reason |-> "Stop Loss"]
  ELSE NoExit

CheckStopLoss(trade, c) ==
  IF StopHit(trade, c)
  THEN [set |-> TRUE, price |-> trade.currentStop, reason |-> "Stop Loss"]
  ELSE NoExit

\* Mutant: the time check lacks the !exitPrice guard.
CheckMaxTimeUnguarded(trade, c, exit) ==
  IF c.time - trade.entryTime >= config.maxHoldingMinutes
  THEN [set |-> TRUE, price |-> c.close, reason |-> "Max Time"]
  ELSE exit

\* Mutant: the holding time must be exceeded, not reached.
CheckMaxTimeStrict(trade, c, exit) ==
  IF ~Truthy(exit) /\ c.time - trade.entryTime > config.maxHoldingMinutes
  THEN [set |-> TRUE, price |-> c.close, reason |-> "Max Time"]
  ELSE exit

CheckMaxTime(trade, c, exit) ==
  IF ~Truthy(exit) /\ c.time - trade.entryTime >= config.maxHoldingMinutes
  THEN [set |-> TRUE, price |-> c.close, reason |-> "Max Time"]
  ELSE exit

\* entryPrice +/- or.rangeSize * targetMultiple, scaled.
TargetPrice(trade, t) ==
  trade.entryPrice * Scale
    + Sign(trade.direction) * or.rangeSize * config.riskRewardTargets[t + 1]

TargetReached(trade, t, c) ==
  IF trade.direction = "LONG" THEN c.high * Scale >= TargetPrice(trade, t)
  ELSE c.low * Scale <= TargetPrice(trade, t)

\* partialProfitPercents.slice(t).reduce((a, b) => a + b, 0) || 1
WeightFrom(t) ==
  LET w == config.partialProfitPercents
      sum == SeqSum([ k \in 1..(Len(w) - Min(t, Len(w))) |-> w[k + t] ])
  IN IF sum = 0 THEN Scale ELSE sum

\* The doubles 0.33, 0.33, 0.34 and their sums 1.0, 0.67, 0.34 give, for these
\* <<remainingShares, t>> below 129, a quotient a hair under the whole number
\* the exact ratio is, and Math.floor then returns one share less.
FloatShortfall ==
  { <<13, 2>>, <<25, 2>>, <<26, 2>>, <<50, 2>>, <<51, 2>>, <<52, 2>>,
    <<53, 2>>, <<100, 2>>, <<102, 2>>, <<104, 2>>, <<106, 2>>, <<123, 2>>,
    <<125, 2>>, <<127, 2>> }

\* Mutant: the fraction is taken of the original size.
SharesToCloseOfOriginal(trade, t) ==
  LET w == config.partialProfitPercents
      partialPct == IF t + 1 \in DOMAIN w THEN w[t + 1] ELSE 0
  IN (trade.shares * partialPct) \div WeightFrom(t)

\* Math.floor(remainingShares * partialPct / (sum of the weights from t || 1))
SharesToClose(trade, t) ==
  LET w == config.partialProfitPercents
      partialPct == IF t + 1 \in DOMAIN w THEN w[t + 1] ELSE 0
      exact == (trade.remainingShares * partialPct) \div WeightFrom(t)
  IN IF w = <<33, 33, 34>> /\ <<trade.remainingShares, t>> \in FloatShortfall
     THEN exact - 1 ELSE exact

\* if (t === 0 && config.breakEvenAfterTarget1) trade.currentStop = entryPrice
BreakEvenStop(trade, t) ==
  IF t = 0 /\ config.breakEvenAfterTarget1 THEN trade.entryPrice
  ELSE trade.currentStop

\* Mutant: the partial exit is recorded, remainingShares is not reduced.
TakePartialKeepsShares(trade, t, n, c, tie) ==
  LET targetPrice == TargetPrice(trade, t)
      pe == [ time |-> c.time,
              price |-> Round2(targetPrice, tie.price),
              shares |-> n,
              target |-> t + 1,
              pnl |-> Round2(Sign(trade.direction)
                               * (targetPrice - trade.entryPrice * Scale) * n,
                             tie.pnl) ]
  IN [ trade EXCEPT !.partialExits = Append(@, pe),
                    !.nextTargetIdx = t + 1,
                    !.currentStop = BreakEvenStop(trade, t) ]

\* One partial exit at target t for n shares; tie gives the rounding of halves.
TakePartial(trade, t, n, c, tie) ==
  LET targetPrice == TargetPrice(trade, t)
      pe == [ time |-> c.time,
              price |-> Round2(targetPrice, tie.price),
              shares |-> n,
              target |-> t + 1,
              pnl |-> Round2(Sign(trade.direction)
                               * (targetPrice - trade.entryPrice * Scale) * n,
                             tie.pnl) ]
  IN [ trade EXCEPT !.partialExits = Append(@, pe),
                    !.remainingShares = @ - n,
                    !.nextTargetIdx = t + 1,
                    !.currentStop = BreakEvenStop(trade, t) ]

PartialSignal(trade, t, n, c) ==
  [ time |-> c.time, type |-> "PARTIAL_EXIT", price |-> TargetPrice(trade, t),
    target |-> t + 1, shares |-> n ]

\* for (let t = trade.nextTargetIdx; t < riskRewardTargets.length; t++)
RECURSIVE TargetLoop(_, _, _, _, _)
TargetLoop(trade, sigs, t, c, tie) ==
  IF t >= Len(config.riskRewardTargets) THEN [trade |-> trade, signals |-> sigs]
  ELSE LET n == IF TargetReached(trade, t, c) THEN SharesToClose(trade, t) ELSE 0
       IN IF n > 0
          THEN TargetLoop(TakePartial(trade, t, n, c, tie),
                          Append(sigs, PartialSignal(trade, t, n, c)),
                          t + 1, c, tie)
          ELSE TargetLoop(trade, sigs, t + 1, c, tie)

CheckPartialTargets(trade, sigs, c, exit, tie) ==
  IF ~Truthy(exit) /\ config.usePartialProfits
  THEN TargetLoop(trade, sigs, trade.nextTargetIdx, c, tie)
  ELSE [trade |-> trade, signals |-> sigs]

\* profitMultiple >= trailingStopActivation, where profitMultiple is a
\* division by or.rangeSize: by zero it is +Infinity, NaN or -Infinity.
TrailingActive(trade, c) ==
  LET profit == IF trade.direction = "LONG" THEN c.high - trade.entryPrice
                ELSE trade.entryPrice - c.low
  IN IF or.rangeSize = 0 THEN profit > 0
     ELSE profit * Scale >= config.trailingStopActivation * or.rangeSize

\* candle.high - trailDistance or candle.low + trailDistance, scaled.
TrailStop(trade, c) ==
  IF trade.direction = "LONG"
  THEN c.high * Scale - or.rangeSize * config.trailingStopDistance
  ELSE c.low * Scale + or.rangeSize * config.trailingStopDistance

\* Mutant: the new stop is taken whether or not it is more favorable.
TrailingStopNoRatchet(trade, c, tie) == Round2(TrailStop(trade, c), tie.price)

\* The ratchet: the new stop is taken only when it is more favorable.
TrailingStop(trade, c, tie) ==
  LET newStop == TrailStop(trade, c)
  IN IF trade.direction = "LONG" /\ newStop > trade.currentStop * Scale
     THEN Round2(newStop, tie.price)
     ELSE IF trade.direction = "SHORT" /\ newStop < trade.currentStop * Scale
          THEN Round2(newStop, tie.price)
          ELSE trade.currentStop

\* Mutant: the update lacks the !config.usePartialProfits guard.
UpdateTrailingStopWithPartials(trade, c, exit, tie) ==
  IF ~Truthy(exit) /\ config.trailingStop /\ TrailingActive(trade, c)
  THEN [trade EXCEPT !.currentStop = TrailingStop(trade, c, tie)]
  ELSE trade

UpdateTrailingStop(trade, c, exit, tie) ==
  IF ~Truthy(exit) /\ config.trailingStop /\ ~config.usePartialProfits
     /\ TrailingActive(trade, c)
  THEN [trade EXCEPT !.currentStop = TrailingStop(trade, c, tie)]
  ELSE trade

\* The terminal partial exit: all remaining shares at exitPrice, target -1.
TerminalExit(trade, time, exitPrice) ==
  [ time |-> time, price |-> exitPrice, shares |-> trade.remainingShares,
    target |-> -1,
    pnl |-> Sign(trade.direction) * (exitPrice - trade.entryPrice)
              * trade.remainingShares ]

\* Mutant: the terminal exit is recorded, remainingShares is not reset.
CloseRemainingKeepsShares(trade, c, exit) ==
  IF trade.remainingShares > 0 /\ Truthy(exit)
  THEN [ trade EXCEPT !.partialExits = Append(@, TerminalExit(trade, c.time, exit.price)) ]
  ELSE trade

\* if (trade.remainingShares > 0 && exitPrice) { push; remainingShares = 0 }
CloseRemaining(trade, c, exit) ==
  IF trade.remainingShares > 0 /\ Truthy(exit)
  THEN [ trade EXCEPT !.partialExits = Append(@, TerminalExit(trade, c.time, exit.price)),
                      !.remainingShares = 0 ]
  ELSE trade

\* The closed trade pushed to trades inside the loop.
Finalize(trade, c, exit) ==
  LET closed == CloseRemaining(trade, c, exit)
  IN Spread(closed,
       [ exitTime |-> c.time,
         exitReason |-> IF exit.reason = "" THEN "Targets Hit" ELSE exit.reason,
         totalPnL |-> SeqSum(PnlOf(closed.partialExits)),
         durationMinutes |-> c.time - trade.entryTime,
         maxFavorableExcursion |-> trade.mfe,
         maxAdverseExcursion |-> trade.mae ])

ExitSignal(closed, c, exit) ==
  [ time |-> c.time, type |-> "EXIT", direction |-> closed.direction,
    price |-> IF Truthy(exit) THEN exit.price ELSE c.close,
    reason |-> closed.exitReason, pnl |-> closed.totalPnL ]

\* Track MFE/MAE
TrackExcursion(trade, c) ==
  IF trade.direction = "LONG"
  THEN [ trade EXCEPT !.mfe = Max(@, c.high - trade.entryPrice),
                      !.mae = Max(@, trade.entryPrice - c.low) ]
  ELSE [ trade EXCEPT !.mfe = Max(@, trade.entryPrice - c.low),
                      !.mae = Max(@, c.high - trade.entryPrice) ]

\* if (exitPrice || trade.remainingShares <= 0)
ShouldClose(trade, exit) == Truthy(exit) \/ trade.remainingShares <= 0

\* ------------------------------------------------------ runDay: the actions
\* The roundings of halves one candle's step may take: of prices and stops,
\* and of P&L amounts.  Halves arise only from rangeSize times a multiple.
NoTie == [price |-> FALSE, pnl |-> FALSE]

HalfPossible ==
  \E m \in { config.riskRewardTargets[k] : k \in DOMAIN config.riskRewardTargets }
             \cup {config.trailingStopDistance} :
    2 * ((or.rangeSize * m) % Scale) = Scale

\* A rounding happens on candle c only when a partial target is taken or the
\* trailing stop is recomputed; other candles have no direction to choose.
Ties(trade, c) ==
  IF ~HalfPossible THEN {NoTie}
  ELSE IF config.usePartialProfits
       THEN IF \E t \in 0..(Len(config.riskRewardTargets) - 1) :
                  TargetReached(trade, t, c)
            THEN [price : BOOLEAN, pnl : BOOLEAN]
            ELSE {NoTie}
       ELSE IF config.trailingStop /\ TrailingActive(trade, c)
            THEN [price : BOOLEAN, pnl : {FALSE}]
            ELSE {NoTie}

SeenActive(c, tradeBefore, tradeAfter) ==
  [ close |-> IF /\ tradeAfter = NoTrade
                 /\ \/ StopHit(tradeBefore, c)
                    \/ c.time - tradeBefore.entryTime < config.maxHoldingMinutes
              THEN 0 ELSE c.close,
    stopHit |-> IF tradeBefore.direction = "LONG"
                THEN c.low <= tradeBefore.currentStop
                ELSE c.high >= tradeBefore.currentStop,
    breakout |-> "none",
    thin |-> FALSE ]

Breakout(c) ==
  IF config.volumeConfirmation
     /\ c.volume * Scale < or.avgVolume * config.volumeMultiplier
  THEN "none"
  ELSE IF c.close > or.high THEN "above"
  ELSE IF c.close < or.low THEN "below"
  ELSE "none"

At(c, time) == Spread(c, [time |-> time])

\* One iteration of the loop with a trade active (it ends in `continue`).
\* (\E x \in {e} names the value of e, as a const of the code does.)
ProcessActive(shape) ==
  /\ pc = "loop"
  /\ activeTrade # NoTrade
  /\ idx < config.openingRangeMinutes + MaxCandles
  /\ \E c \in {At(shape, idx)} :
     \E tie \in Ties(activeTrade, c) :
     \E exit \in {CheckMaxTime(activeTrade, c, CheckStopLoss(activeTrade, c))} :
     \E part \in {CheckPartialTargets(activeTrade, signals, c, exit, tie)} :
     \E trade \in {UpdateTrailingStop(part.trade, c, exit, tie)} :
        /\ idx' = idx + 1
        /\ IF ShouldClose(trade, exit)
           THEN \E closed \in {Finalize(trade, c, exit)} :
                   /\ trades' = Append(trades, closed)
                   /\ activeTrade' = NoTrade
                   /\ signals' = Append(part.signals, ExitSignal(closed, c, exit))
           ELSE /\ trades' = trades
                /\ activeTrade' = TrackExcursion(trade, c)
                /\ signals' = part.signals
        /\ candle' = SeenActive(c, activeTrade, activeTrade')
  /\ UNCHANGED <<config, accountSize, or, tradesCount, pc, dayCandles>>
  /\ UNCHANGED <<marketVars, backtestVars>>

\* Mutant: the volume is not looked at.
VolumeOkAlways(c) == TRUE

\* const volumeOk = !config.volumeConfirmation || volume >= avgVolume * multiplier
VolumeOk(c) ==
  \/ ~config.volumeConfirmation
  \/ c.volume * Scale >= or.avgVolume * config.volumeMultiplier

LongBreak(c) ==
  IF config.confirmationType = "close" THEN c.close > or.high
  ELSE c.high > or.high

ShortBreak(c) ==
  IF config.confirmationType = "close" THEN c.close < or.low
  ELSE c.low < or.low

SeenFlat(c, tradeAfter) ==
  [ close |-> IF tradeAfter = NoTrade /\ Breakout(c) = "none" THEN 0
              ELSE c.close,
    stopHit |-> FALSE,
    breakout |-> Breakout(c),
    thin |-> /\ config.volumeConfirmation
             /\ c.volume * Scale < or.avgVolume * config.volumeMultiplier
             /\ (LongBreak(c) \/ ShortBreak(c)) ]

\* The entry price and the stop of a breakout in the given direction.
EntryPrice(direction, c) ==
  IF config.confirmationType = "close" THEN c.close
  ELSE IF direction = "LONG" THEN or.high + 1 ELSE or.low - 1

\* Mutant: the stop is put at the boundary that was broken.
StopPriceSameSide(direction) ==
  IF direction = "LONG" THEN or.high - config.stopLossBuffer
  ELSE or.low + config.stopLossBuffer

StopPrice(direction) ==
  IF direction = "LONG" THEN or.low - config.stopLossBuffer
  ELSE or.high + config.stopLossBuffer

PositionShares(direction, c) ==
  IF config.positionSizing = "fixed_risk"
  THEN calculatePositionSize(accountSize, config.riskPerTrade,
                             EntryPrice(direction, c), StopPrice(direction))
  ELSE FixedShares

\* Mutant: the entry is stamped with the previous candle's time.
NewTradePreviousCandle(direction, c, shares) ==
  [ direction |-> direction,
    entryPrice |-> EntryPrice(direction, c),
    entryTime |-> c.time - 1,
    stopLoss |-> StopPrice(direction),
    currentStop |-> StopPrice(direction),
    shares |-> shares,
    remainingShares |-> shares,
    partialExits |-> <<>>,
    nextTargetIdx |-> 0,
    mfe |-> 0,
    mae |-> 0 ]

NewTrade(direction, c, shares) ==
  [ direction |-> direction,
    entryPrice |-> EntryPrice(direction, c),
    entryTime |-> c.time,
    stopLoss |-> StopPrice(direction),
    currentStop |-> StopPrice(direction),
    shares |-> shares,
    remainingShares |-> shares,
    partialExits |-> <<>>,
    nextTargetIdx |-> 0,
    mfe |-> 0,
    mae |-> 0 ]

EntrySignal(direction, c, shares) ==
  [ time |-> c.time, type |-> "ENTRY", direction |-> direction,
    price |-> EntryPrice(direction, c), stop |-> StopPrice(direction),
    shares |-> shares ]

\* The direction the candle enters in, or "NONE": the long breakout is tested
\* first, the short one only when the long test (with volume) failed.
EntryDirection(c) ==
  IF LongBreak(c) /\ VolumeOk(c) THEN "LONG"
  ELSE IF ShortBreak(c) /\ VolumeOk(c) THEN "SHORT"
  ELSE "NONE"

\* Mutant: the trade-count guard is missing.
MayEnterAlways == TRUE

\* if (tradesCount >= config.maxTradesPerDay) continue
MayEnter == tradesCount < config.maxTradesPerDay

\* One iteration of the loop with no trade active.
LookForEntry(shape) ==
  /\ pc = "loop"
  /\ activeTrade = NoTrade
  /\ idx < config.openingRangeMinutes + MaxCandles
  /\ \E c \in {At(shape, idx)} :
     \E direction \in {EntryDirection(c)} :
     \E shares \in {IF direction = "NONE" THEN 0 ELSE PositionShares(direction, c)} :
        /\ idx' = idx + 1
        /\ IF MayEnter /\ direction # "NONE" /\ shares > 0
           THEN /\ activeTrade' = NewTrade(direction, c, shares)
                /\ tradesCount' = tradesCount + 1
                /\ signals' = Append(signals, EntrySignal(direction, c, shares))
           ELSE UNCHANGED <<activeTrade, tradesCount, signals>>
        /\ candle' = SeenFlat(c, activeTrade')
  /\ UNCHANGED <<config, accountSize, or, trades, pc, dayCandles>>
  /\ UNCHANGED <<marketVars, backtestVars>>

\* Mutant: the end-of-day exit carries the original size.
EndOfDayCloseAllShares(trade, lastCandle) ==
  LET pe == [TerminalExit(trade, lastCandle.time, lastCandle.close)
               EXCEPT !.shares = trade.shares]
      exits == Append(trade.partialExits, pe)
  IN Spread([trade EXCEPT !.partialExits = exits, !.remainingShares = 0],
       [ exitTime |-> lastCandle.time,
         exitReason |-> "End of Day",
         totalPnL |-> SeqSum(PnlOf(exits)),
         durationMinutes |-> lastCandle.time - trade.entryTime ])

\* Close any open trade at end of day: the closed trade pushed after the loop.
EndOfDayClose(trade, lastCandle) ==
  LET pe == TerminalExit(trade, lastCandle.time, lastCandle.close)
      exits == Append(trade.partialExits, pe)
  IN Spread([trade EXCEPT !.partialExits = exits, !.remainingShares = 0],
       [ exitTime |-> lastCandle.time,
         exitReason |-> "End of Day",
         totalPnL |-> SeqSum(PnlOf(exits)),
         durationMinutes |-> lastCandle.time - trade.entryTime ])

\* The candles are exhausted: the loop ends, an open trade is closed at the
\* last candle, and runDay returns.
EndOfDay ==
  /\ pc = "loop"
  /\ pc' = "done"
  /\ IF activeTrade # NoTrade
     THEN /\ trades' = Append(trades, EndOfDayClose(activeTrade, [time |-> idx - 1, close |-> candle.close]))
          /\ activeTrade' = NoTrade
     ELSE UNCHANGED <<trades, activeTrade>>
  /\ candle' = [candle EXCEPT !.close = 0]
  /\ UNCHANGED <<config, accountSize, or, idx, tradesCount, signals, dayCandles>>
  /\ UNCHANGED <<marketVars, backtestVars>>

\* No series is generated and no tick simulator made.
NoHist == [pc |-> "none"]

NoTick == [pc |-> "none"]

NoFeed == hist = NoHist /\ tick = NoTick

\* No stream of MarketData exists while runDay is examined.
NoMarket == streams = <<>> /\ drawn = <<>> /\ gen = [pc |-> "none"] /\ NoFeed

\* Backtester.run has recorded nothing of the day.
NoBook == [pc |-> "none"]

\* No backtest runs over the days, no metrics are computed and no
\* resampling is called.
NoLedger == [pc |-> "none"]

NoMetrics == [pc |-> "none"]

NoMc == [pc |-> "none"]

NoAnalysis == ledger = NoLedger /\ metrics = NoMetrics /\ mc = NoMc

\* Mutant: the loop starts right after the opening range.
StartIdxAfterRange == config.openingRangeMinutes

\* const startIdx = config.openingRangeMinutes + config.avoidFirstMinutes
StartIdx == config.openingRangeMinutes + config.avoidFirstMinutes

\* runDay up to the loop: the configuration is merged, the opening range
\* computed from the first openingRangeMinutes candles.
Init ==
  /\ config \in Configs
  /\ accountSize \in IF config.positionSizing = "fixed_risk" THEN AccountSizes
                    ELSE {StartingCapital}
  /\ or \in { computeOpeningRange(cs, config) :
                cs \in [1..config.openingRangeMinutes -> Candles] }
  /\ idx = StartIdx
  /\ candle = NoCandle
  /\ activeTrade = NoTrade
  /\ tradesCount = 0
  /\ trades = <<>>
  /\ signals = <<>>
  /\ pc = "loop"
  /\ dayCandles = <<>>
  /\ NoMarket
  /\ book = NoBook
  /\ NoAnalysis

Next ==
  \/ \E bar \in PriceBars : ProcessActive(bar)
  \/ \E shape \in Candles : LookForEntry(shape)
  \/ EndOfDay

Spec == Init /\ [][Next]_vars

\* ------------------------------------------------ runDay: the first lines
\* runDay called with a day of any length up to MaxRange candles and an
\* opening range of 1..MaxRange minutes.  computeOpeningRange reads the
\* high, low and volume of a candle: the candles supplied close at their low.
RangeCandles == { c \in Candles : c.close = c.low }

RangeConfigs ==
  { MergeConfig([openingRangeMinutes |-> k, stopLossBuffer |-> 1]) :
      k \in 1..MaxRange }

\* Mutant: the range is taken over all candles supplied.
RangeOfWholeDay(cs, cfg) ==
  computeOpeningRange(cs, [cfg EXCEPT !.openingRangeMinutes =
                                         Max(Len(cs), cfg.openingRangeMinutes)])

\* const or = computeOpeningRange(candles, config)
RangeOf(cs, cfg) == computeOpeningRange(cs, cfg)

\* Mutant: a day without an opening range goes on to the loop.
StartDayNoReturn(range) == "loop"

\* if (!or) return { trades: [], openingRange: null, signals: [] }
StartDayTo(range) == IF range = Null THEN "done" ELSE "loop"

StartDay ==
  /\ pc = "start"
  /\ or' = RangeOf(dayCandles, config)
  /\ pc' = StartDayTo(or')
  /\ idx' = IF or' = Null THEN 0 ELSE StartIdx
  /\ trades' = <<>>
  /\ signals' = <<>>
  /\ UNCHANGED <<config, accountSize, candle, activeTrade, tradesCount,
                 dayCandles>>
  /\ UNCHANGED <<marketVars, backtestVars>>

RangeInit ==
  /\ config \in RangeConfigs
  /\ accountSize = StartingCapital
  /\ dayCandles \in UNION { [1..n -> RangeCandles] : n \in 0..MaxRange }
  /\ or = Null
  /\ idx = 0
  /\ candle = NoCandle
  /\ activeTrade = NoTrade
  /\ tradesCount = 0
  /\ trades = <<>>
  /\ signals = <<>>
  /\ pc = "start"
  /\ NoMarket
  /\ book = NoBook
  /\ NoAnalysis

RangeNext == StartDay

RangeSpec == RangeInit /\ [][RangeNext]_vars

\* ------------------------------------------------ MarketData: seededRandom
\* A 32-bit word is kept as two 16-bit halves, so that the products of the
\* recurrence stay within the integers of the checker.
Word == 2^16

Halves(n) == [hi |-> (n \div Word) % Word, lo |-> n % Word]

\* Mutant: the recurrence has no increment.
LcgStepNoIncrement(s) ==
  LET m == Halves(Multiplier)
      low == s.lo * m.lo
      high == s.hi * m.lo + s.lo * m.hi + low \div Word
  IN [hi |-> high % Word, lo |-> low % Word]

\* s = (s * 1664525 + 1013904223) & 0xFFFFFFFF: the product and the sum are
\* exact in a double (below 2^53), and the mask keeps the low 32 bits.
LcgStep(s) ==
  LET m == Halves(Multiplier)
      c == Halves(Increment)
      low == s.lo * m.lo + c.lo
      high == s.hi * m.lo + s.lo * m.hi + c.hi + low \div Word
  IN [hi |-> high % Word, lo |-> low % Word]

\* 0xFFFFFFFF
Divisor == [hi |-> Word - 1, lo |-> Word - 1]

\* (s >>> 0) / 0xFFFFFFFF, kept as the fraction it is.  The quotient of two
\* different words below 2^32 is not rounded to 1.
Returned(s) == [num |-> s, den |-> Divisor]

\* function seededRandom(seed) { let s = seed; ... }: the new stream's s.
seededRandom(seed) == Halves(seed)

\* The seeds: small ones, and three from which the first, second and third
\* state of the stream is 0xFFFFFFFF.
Seeds == (0..MaxSeed) \cup {653637408, -1814103163, -1589422786}

\* Two runs, each with the stream it made by its own call of seededRandom.
Runs == {1, 2}

\* Mutant: s is one variable shared by every stream.
StateOfShared(run) == 1

\* The variable s the stream of a run reads and writes: the one of its own
\* closure.
StateOf(run) == run

\* One call of the stream of a run.
Draw(run) ==
  /\ Len(drawn[run]) < MaxDraws
  /\ \E next \in {LcgStep(streams[StateOf(run)])} :
       /\ streams' = [streams EXCEPT ![StateOf(run)] = next]
       /\ drawn' = [drawn EXCEPT ![run] = Append(@, Returned(next))]
  /\ UNCHANGED <<gen, hist, tick, strategyVars, backtestVars>>

\* No day is run while the streams are examined.
NoStrategy ==
  /\ config = DEFAULT_CONFIG
  /\ accountSize = StartingCapital
  /\ or = Null
  /\ idx = 0
  /\ candle = NoCandle
  /\ activeTrade = NoTrade
  /\ tradesCount = 0
  /\ trades = <<>>
  /\ signals = <<>>
  /\ pc = "idle"
  /\ dayCandles = <<>>

RngInit ==
  /\ \E seed \in Seeds : streams = [run \in Runs |-> seededRandom(seed)]
  /\ drawn = [run \in Runs |-> <<>>]
  /\ gen = [pc |-> "none"]
  /\ NoFeed
  /\ NoStrategy
  /\ book = NoBook
  /\ NoAnalysis

RngNext == \E run \in Runs : Draw(run)

RngSpec == RngInit /\ [][RngNext]_vars

\* ---------------------------------------- MarketData: generateIntradayData
\* Prices are in hundredths of a cent until a candle is pushed.  The normal
\* deviates, which the code computes with Math.log and Math.cos, are taken in
\* whole steps; a step moves a price by NoiseStep, a quarter of a cent.
NoiseStep == 25

GenInfinity == 2^30

\* One call of the stream whose variable is s.
Rng(s) ==
  LET Both(next) == [state |-> next, value |-> Returned(next)]
  IN Both(LcgStep(s))

\* while (u1 === 0) u1 = rng()
RECURSIVE NonZeroDraw(_, _)
NonZeroDraw(s, u1) ==
  IF u1.num.hi = 0 /\ u1.num.lo = 0
  THEN NonZeroDraw(Rng(s).state, Rng(s).value)
  ELSE [state |-> s, value |-> u1]

\* Math.sqrt(-2.0 * Math.log(u1)) in steps: 2 below 1/8, 1 below 5/8, else 0.
Magnitude(u1) ==
  IF 8 * u1.num.hi < Word THEN 2
  ELSE IF 8 * u1.num.hi < 5 * Word THEN 1
  ELSE 0

\* The sign of Math.cos(2.0 * Math.PI * u2): negative in the middle half.
CosSign(u2) ==
  IF 4 * u2.num.hi < Word \/ 4 * u2.num.hi >= 3 * Word THEN 1 ELSE -1

\* normalRandom(rng): two draws, more while the first is 0.
normalRandom(s) ==
  LET Pick(a) ==
        LET Next2(b) ==
              LET Result(c) == [ state |-> c.state,
                                 value |-> Magnitude(c.value) * CosSign(b.value) ]
              IN Result(NonZeroDraw(b.state, a.value))
        IN Next2(Rng(a.state))
  IN Pick(Rng(s))

\* A draw in eighths, 0..7 (8 for the draw that is 1).
Eighths(u) == IF u.num = u.den THEN 8 ELSE (8 * u.num.hi) \div Word

\* Mutant: the high is taken of the open and the intraminute high only.
GenHighNoClose(open, close, intraHigh) == Max(open, intraHigh)

\* Math.max(open, close, intraHigh)
GenHigh(open, close, intraHigh) == Max(Max(open, close), intraHigh)

\* Math.min(open, close, intraLow)
GenLow(open, close, intraLow) == Min(Min(open, close), intraLow)

\* profile.avgVolume / totalMinutes; volumeProfile, a positive factor, is
\* taken as 1.
BaseVol == AvgVolume \div TotalMinutes

\* baseVol *= 1.8 + rng() * 1.2
Spike(baseVol, u) == (baseVol * (144 + 12 * Eighths(u))) \div 80

\* Math.round(baseVol * (0.5 + rng()))
GenVolume(baseVol, u) == MathRound(baseVol * (4 + Eighths(u)), 8)

NoGen == [pc |-> "none"]

NoCandleYet == [time |-> -1]

\* generateIntradayData up to its loop: the stream is made, the gap and the
\* trend bias are drawn.
GenStart ==
  /\ gen.pc = "call"
  /\ \E gap \in {normalRandom(seededRandom(gen.seed))} :
     \E bias \in {normalRandom(gap.state)} :
       /\ gen' = [ pc |-> "loop",
                   i |-> 0,
                   currentPrice |-> BasePrice + gap.value * NoiseStep,
                   openPrice |-> BasePrice + gap.value * NoiseStep,
                   trendBias |-> bias.value,
                   orHigh |-> -GenInfinity,
                   orLow |-> GenInfinity,
                   count |-> 0,
                   last |-> NoCandleYet ]
       /\ streams' = <<bias.state>>
  /\ UNCHANGED <<drawn, hist, tick, strategyVars, backtestVars>>

\* One iteration of the per-minute loop: the candle of minute i is pushed.
\* trend is the bias taken in hundredths of a cent; meanRev is below them.
GenMinute ==
  /\ gen.pc = "loop"
  /\ gen.i < TotalMinutes
  /\ \E noise \in {normalRandom(streams[1])} :
     \E wickUp \in {normalRandom(noise.state)} :
     \E wickDown \in {normalRandom(wickUp.state)} :
     \E open \in {gen.currentPrice} :
     \E close \in {open + noise.value * NoiseStep + gen.trendBias} :
     \E high \in {GenHigh(open, close, open + Abs(wickUp.value) * NoiseStep)} :
     \E low \in {GenLow(open, close, open - Abs(wickDown.value) * NoiseStep)} :
     \E orHigh \in {IF gen.i < OrPeriod /\ high > gen.orHigh THEN high
                     ELSE gen.orHigh} :
     \E orLow \in {IF gen.i < OrPeriod /\ low < gen.orLow THEN low
                    ELSE gen.orLow} :
     \E breakout \in {/\ gen.i >= OrPeriod
                       /\ orHigh # -GenInfinity
                       /\ (high > orHigh \/ low < orLow)} :
     \E spike \in {Rng(wickDown.state)} :
     \E baseVol \in {IF breakout THEN Spike(BaseVol, spike.value)
                      ELSE BaseVol} :
     \E last \in {Rng(IF breakout THEN spike.state ELSE wickDown.state)} :
        /\ gen' = [ gen EXCEPT
                      !.i = @ + 1,
                      !.currentPrice = close,
                      !.orHigh = orHigh,
                      !.orLow = orLow,
                      !.count = @ + 1,
                      !.last = [ time |-> gen.i,
                                 open |-> Round2(open, TRUE),
                                 high |-> Round2(high, TRUE),
                                 low |-> Round2(low, TRUE),
                                 close |-> Round2(close, TRUE),
                                 volume |-> GenVolume(baseVol, last.value) ] ]
        /\ streams' = <<last.state>>
  /\ UNCHANGED <<drawn, hist, tick, strategyVars, backtestVars>>

\* return { ticker, date, preMarketGap, openPrice, closePrice, candles }
GenReturn ==
  /\ gen.pc = "loop"
  /\ gen.i >= TotalMinutes
  /\ gen' = [gen EXCEPT !.pc = "done"]
  /\ UNCHANGED <<streams, drawn, hist, tick, strategyVars, backtestVars>>

GenInit ==
  /\ gen \in { [pc |-> "call", seed |-> seed] : seed \in Seeds }
  /\ streams = <<>>
  /\ drawn = <<>>
  /\ NoFeed
  /\ NoStrategy
  /\ book = NoBook
  /\ NoAnalysis

GenNext == GenStart \/ GenMinute \/ GenReturn

GenSpec == GenInit /\ [][GenNext]_vars

\* ------------------------------------------------------- Backtester: run
\* One day of run's loop: runDay is called with the running equity as its
\* accountSize, and the trades it returns are recorded with their costs.
\* Rates and costs are in hundredths of a cent: DEFAULT_BACKTEST_CONFIG has
\* commission 0.005 a share and slippage 0.02 a leg.
\* The rates run is called with: the defaults, and 0.001 a share and 0.003 a
\* leg.  No cost or net amount of these rates lies halfway between two cents.
CostConfigs ==
  { [commission |-> c, slippage |-> s] :
      c \in {Commission, 10}, s \in {Slippage, 30} }

\* Mutant: the commission is charged on the shares of the trade's last exit.
TotalSharesAtExit(trade) == Last(trade.partialExits).shares

\* const totalShares = trade.shares
TotalShares(trade) == trade.shares

\* commissionCost = totalShares * commission * 2
CommissionCost(trade, cost) == TotalShares(trade) * cost.commission * 2

\* slippageCost = slippage * 2
SlippageCost(cost) == cost.slippage * 2

\* netPnL = trade.totalPnL - commissionCost - slippageCost, not yet rounded
NetPnL(trade, cost) ==
  trade.totalPnL * Scale - CommissionCost(trade, cost) - SlippageCost(cost)

\* The record pushed to allTrades; day, date, ticker and returnPct are left
\* out.
Recorded(trade, cost) ==
  Spread(trade,
    [ grossPnL |-> trade.totalPnL,
      commission |-> Round2(CommissionCost(trade, cost), TRUE),
      slippage |-> Round2(SlippageCost(cost), TRUE),
      netPnL |-> Round2(NetPnL(trade, cost), TRUE) ])

\* The loop over result.trades and the equity update that follows it.  The
\* rates are read here for the first time, so they are drawn here.
RecordDay ==
  /\ pc = "done"
  /\ book = NoBook
  /\ \E cost \in CostConfigs :
     \E dayPnL \in {SeqSum([k \in DOMAIN trades |-> NetPnL(trades[k], cost)])} :
       book' = [ pc |-> "recorded",
                 config |-> cost,
                 allTrades |-> [k \in DOMAIN trades |-> Recorded(trades[k], cost)],
                 dayPnL |-> dayPnL,
                 equity |-> accountSize * Scale + dayPnL ]
  /\ UNCHANGED <<strategyVars, marketVars, ledger, metrics, mc>>

\* run passes its running equity as accountSize; runDay reads it under
\* fixed-risk sizing only, and those are the days taken.
BacktestInit == Init /\ config.positionSizing = "fixed_risk"

BacktestNext == Next \/ RecordDay

BacktestSpec == BacktestInit /\ [][BacktestNext]_vars

\* ------------------------------------------------ Backtester: run, the days
\* run's loop over historicalDays.  What runDay returns for a day is given:
\* its trades with their size and totalPnL, in cents.  Equity, peak and
\* drawdown are in hundredths of a cent; dailyReturns and dailyResults are
\* left out.
DayTrades ==
  [ big   |-> [shares |-> 100, totalPnL |-> 250],
    small |-> [shares |-> 3, totalPnL |-> 5],
    even  |-> [shares |-> 100, totalPnL |-> 104],
    loss  |-> [shares |-> 100, totalPnL |-> -120] ]

DayResults ==
  { <<>>, <<DayTrades.big>>, <<DayTrades.small>>, <<DayTrades.even>>,
    <<DayTrades.loss>>, <<DayTrades.big, DayTrades.loss>> }

\* config.startingCapital, in cents.
Capitals == {500, 100000}

\* Mutant: the peak is not raised.
PeakEquityStale(equity, peakEquity) == peakEquity

\* if (equity > peakEquity) peakEquity = equity
PeakEquity(equity, peakEquity) ==
  IF equity > peakEquity THEN equity ELSE peakEquity

\* peakEquity > 0 ? drawdown / peakEquity * 100 : 0, in hundredths of a
\* percent.
DrawdownPct(drawdown, peakEquity) ==
  IF peakEquity > 0 THEN MathRound(drawdown * 10000, peakEquity) ELSE 0

\* Mutant: a day without trades pushes no point.
CurveAfterTraded(curve, point) ==
  IF point.trades = 0 THEN curve ELSE Append(curve, point)

\* equityCurve.push({ ... })
CurveAfter(curve, point) == Append(curve, point)

\* run up to its loop: the series is generated, the equity state set.
LedgerInit ==
  /\ \E capital \in Capitals, cost \in CostConfigs, days \in 0..MaxDays :
       ledger = [ pc |-> "loop",
                  config |-> cost,
                  startingCapital |-> capital,
                  days |-> days,
                  d |-> 0,
                  equity |-> capital * Scale,
                  peakEquity |-> capital * Scale,
                  maxDrawdown |-> 0,
                  maxDrawdownPercent |-> 0,
                  equityCurve |-> <<[day |-> 0, equity |-> capital]>>,
                  allTrades |-> <<>> ]
  /\ book = NoBook
  /\ metrics = NoMetrics
  /\ mc = NoMc
  /\ streams = <<>>
  /\ drawn = <<>>
  /\ gen = [pc |-> "none"]
  /\ NoFeed
  /\ NoStrategy

\* One iteration of the loop: day d + 1 is run, its trades are recorded
\* with their costs, and the equity state and the curve are updated.
LedgerDay ==
  /\ ledger.pc = "loop"
  /\ ledger.d < ledger.days
  /\ \E result \in DayResults :
     \E dayPnL \in {SeqSum([k \in DOMAIN result |->
                              NetPnL(result[k], ledger.config)])} :
     \E equity \in {ledger.equity + dayPnL} :
     \E peakEquity \in {PeakEquity(equity, ledger.peakEquity)} :
     \E drawdown \in {peakEquity - equity} :
     \E drawdownPct \in {DrawdownPct(drawdown, peakEquity)} :
       ledger' =
         [ ledger EXCEPT
             !.d = @ + 1,
             !.equity = equity,
             !.peakEquity = peakEquity,
             !.maxDrawdown = Max(@, drawdown),
             !.maxDrawdownPercent = Max(@, drawdownPct),
             !.allTrades = @ \o
               [ k \in DOMAIN result |->
                   Spread(Recorded(result[k], ledger.config),
                          [day |-> ledger.d + 1]) ],
             !.equityCurve = CurveAfter(@,
               [ day |-> ledger.d + 1,
                 equity |-> Round2(equity, TRUE),
                 pnl |-> Round2(dayPnL, TRUE),
                 drawdown |-> Round2(drawdown, TRUE),
                 drawdownPct |-> drawdownPct,
                 trades |-> Len(result) ]) ]
  /\ UNCHANGED <<strategyVars, marketVars, book, metrics, mc>>

\* computeMetrics, "Drawdown calculations": for (const point of equityCurve),
\* from point k on.  Equity, peak and maxDD are in cents, as the curve
\* records them; maxDDPct is in hundredths of a percent.
RECURSIVE DrawdownLoop(_, _, _)
DrawdownLoop(curve, k, acc) ==
  IF k > Len(curve) THEN acc
  ELSE LET point == curve[k]
           newPeak == point.equity >= acc.peak
           peak == IF newPeak THEN point.equity ELSE acc.peak
           ddLength == point.day - acc.ddStartDay
           dd == peak - point.equity
           ddPct == DrawdownPct(dd, peak)
       IN DrawdownLoop(curve, k + 1,
            [ peak |-> peak,
              longestDD |-> IF newPeak /\ ddLength > acc.longestDD
                            THEN ddLength ELSE acc.longestDD,
              ddStartDay |-> IF newPeak THEN point.day ELSE acc.ddStartDay,
              maxDD |-> IF dd > acc.maxDD THEN dd ELSE acc.maxDD,
              maxDDPct |-> IF ddPct > acc.maxDDPct THEN ddPct ELSE acc.maxDDPct ])

\* The drawdown metrics computeMetrics returns for a curve.
CurveMetrics(curve, startingCapital) ==
  LET acc == DrawdownLoop(curve, 1,
               [ peak |-> startingCapital, longestDD |-> 0, ddStartDay |-> 0,
                 maxDD |-> 0, maxDDPct |-> 0 ])
  IN [ maxDrawdown |-> acc.maxDD,
       maxDrawdownPct |-> acc.maxDDPct,
       longestDrawdownDays |-> acc.longestDD ]

\* The loop is over: the metrics are computed and run returns.
LedgerReturn ==
  /\ ledger.pc = "loop"
  /\ ledger.d >= ledger.days
  /\ ledger' = Spread([ledger EXCEPT !.pc = "done"],
                      [ metrics |-> CurveMetrics(ledger.equityCurve,
                                                 ledger.startingCapital) ])
  /\ UNCHANGED <<strategyVars, marketVars, book, metrics, mc>>

LedgerNext == LedgerDay \/ LedgerReturn

LedgerSpec == LedgerInit /\ [][LedgerNext]_vars

\* ------------------------------------------------ Backtester: computeMetrics
\* The recorded netPnL of the trades, in cents, in closing order.
NetValues == {-3, -1, 0, 2}

TradeLists == UNION { [1..n -> NetValues] : n \in 0..MaxTrades }

\* A double: a finite number, Infinity or NaN.
Finite(x) == [kind |-> "finite", value |-> x]
PlusInfinity == [kind |-> "infinity"]
NotANumber == [kind |-> "nan"]

\* a / b of two doubles a >= 0 and b >= 0, in hundredths and rounded as
\* toFixed(2) rounds.
Divide(a, b) ==
  IF b # 0 THEN Finite(MathRound(a * 100, b))
  ELSE IF a > 0 THEN PlusInfinity
  ELSE NotANumber

\* trades.filter(t => t.netPnL > 0) and trades.filter(t => t.netPnL <= 0)
Winners(ts) == SelectSeq(ts, LAMBDA net : net > 0)
Losers(ts) == SelectSeq(ts, LAMBDA net : net <= 0)

\* Mutant: the quotient is taken whatever the gross loss.
ProfitFactorUnguarded(grossProfit, grossLoss) == Divide(grossProfit, grossLoss)

\* grossLoss > 0 ? grossProfit / grossLoss : grossProfit > 0 ? Infinity : 0,
\* as returned: parseFloat(profitFactor.toFixed(2))
ProfitFactor(grossProfit, grossLoss) ==
  IF grossLoss > 0 THEN Divide(grossProfit, grossLoss)
  ELSE IF grossProfit > 0 THEN PlusInfinity
  ELSE Finite(0)

\* The counts and sums of computeMetrics and its profit factor; sums are in
\* cents.
computeMetrics(ts) ==
  LET grossProfit == SeqSum(Winners(ts))
      grossLoss == Abs(SeqSum(Losers(ts)))
  IN [ totalTrades |-> Len(ts),
       winners |-> Len(Winners(ts)),
       losers |-> Len(Losers(ts)),
       totalPnL |-> SeqSum(ts),
       grossProfit |-> grossProfit,
       grossLoss |-> grossLoss,
       profitFactor |-> ProfitFactor(grossProfit, grossLoss) ]

MetricsInit ==
  /\ metrics \in { [pc |-> "call", trades |-> ts] : ts \in TradeLists }
  /\ book = NoBook
  /\ ledger = NoLedger
  /\ mc = NoMc
  /\ streams = <<>>
  /\ drawn = <<>>
  /\ gen = [pc |-> "none"]
  /\ NoFeed
  /\ NoStrategy

MetricsCall ==
  /\ metrics.pc = "call"
  /\ metrics' = [ pc |-> "done",
                  trades |-> metrics.trades,
                  result |-> computeMetrics(metrics.trades) ]
  /\ UNCHANGED <<strategyVars, marketVars, book, ledger, mc>>

MetricsNext == MetricsCall

MetricsSpec == MetricsInit /\ [][MetricsNext]_vars

\* ---------------------------------------- Backtester: monteCarloSimulation
\* Amounts are in cents.  The trades are given by their recorded netPnL.
McNets == {-3, 2}

McTradeLists == UNION { [1..n -> McNets] : n \in 0..MaxTrades }

\* The values the stream has returned before the simulation the loop is
\* examined from: none, or the 827130182 it returns before its state is
\* 653637408.  The stream is drawn from numSimulations x trades.length
\* times.
McPositions ==
  { [draws |-> 0, state |-> seededRandom(McSeed)],
    [draws |-> 827130182, state |-> Halves(653637408)] }

\* Mutant: the stream is one that exists already, as other callers left it.
McRngOfOther(other) == other

\* const rng = MarketData.seededRandom(42)
McRng(other) == seededRandom(McSeed)

\* Mutant: no trade list is taken for empty.
McEmptyNever(ts) == FALSE

\* trades.length === 0
McEmpty(ts) == ts = <<>>

\* Math.floor(rng() * trades.length) for the value u = s / 0xFFFFFFFF: the
\* largest k with k * 0xFFFFFFFF <= s * len.
Index(u, len) ==
  LET Reaches(k) ==
        LET low == u.num.lo * len + k
            high == u.num.hi * len + low \div Word
        IN high >= k * Word
  IN CHOOSE k \in 0..len : Reaches(k) /\ \A j \in (k + 1)..len : ~Reaches(j)

\* (peak - equity) / peak * 100, in hundredths of a percent; peak is
\* positive.
McDrawdown(peak, equity) == MathRound((peak - equity) * 10000, peak)

\* The inner loop from its iteration i on: the trades drawn and what they
\* leave of equity, peak and maxDD.  trades[trades.length] is undefined, and
\* reading its netPnL throws.
RECURSIVE Resample(_, _, _)
Resample(ts, i, acc) ==
  IF i > Len(ts) \/ acc.thrown THEN acc
  ELSE LET Step(draw) ==
             LET Pick(at) ==
                   IF at >= Len(ts)
                   THEN [acc EXCEPT !.rng = draw.state,
                                    !.picked = Append(@, at),
                                    !.thrown = TRUE]
                   ELSE LET equity == acc.equity + ts[at + 1]
                            peak == Max(acc.peak, equity)
                        IN [ rng |-> draw.state,
                             equity |-> equity,
                             peak |-> peak,
                             maxDD |-> Max(acc.maxDD, McDrawdown(peak, equity)),
                             picked |-> Append(acc.picked, at),
                             thrown |-> FALSE ]
             IN Resample(ts, i + 1, Pick(Index(draw.value, Len(ts))))
       IN Step(Rng(acc.rng))

\* results.sort((a, b) => a.finalEquity - b.finalEquity)
RECURSIVE Insert(_, _)
Insert(sorted, r) ==
  IF sorted = <<>> THEN <<r>>
  ELSE IF r.finalEquity < Head(sorted).finalEquity THEN <<r>> \o sorted
  ELSE <<Head(sorted)>> \o Insert(Tail(sorted), r)

RECURSIVE SortedFrom(_, _)
SortedFrom(results, sorted) ==
  IF results = <<>> THEN sorted
  ELSE SortedFrom(Tail(results), Insert(sorted, Head(results)))

\* Mutant: the results are left in the order of the simulations.
SortResultsNot(results) == results

SortResults(results) == SortedFrom(results, <<>>)

\* results[Math.floor(numSimulations * p)] for p in hundredths
Percentile(sorted, n, p) == sorted[(n * p) \div 100 + 1]

\* The record monteCarloSimulation returns.
McRecord(results, n) ==
  LET sorted == SortResults(results)
  IN [ median |-> Percentile(sorted, n, 50),
       percentile5 |-> Percentile(sorted, n, 5),
       percentile25 |-> Percentile(sorted, n, 25),
       percentile75 |-> Percentile(sorted, n, 75),
       percentile95 |-> Percentile(sorted, n, 95),
       worstCase |-> sorted[1],
       bestCase |-> sorted[n] ]

NoStream == [hi |-> -1, lo |-> -1]

\* Two calls with the same trade list, starting capital and simulation
\* count are made one after the other; another stream of MarketData is in
\* use besides.
McInit ==
  /\ \E ts \in McTradeLists, n \in 1..MaxSims, from \in McPositions :
       mc = [ pc |-> "idle",
              trades |-> ts,
              startingCapital |-> StartingCapital,
              numSimulations |-> n,
              from |-> from,
              rng |-> NoStream,
              sim |-> 0,
              results |-> <<>>,
              picked |-> <<>>,
              otherAt |-> <<>>,
              returned |-> <<>> ]
  /\ streams = [run \in Runs |-> seededRandom(1)]
  /\ drawn = [run \in Runs |-> <<>>]
  /\ gen = [pc |-> "none"]
  /\ NoFeed
  /\ book = NoBook
  /\ ledger = NoLedger
  /\ metrics = NoMetrics
  /\ NoStrategy

\* monteCarloSimulation is called: it returns null for an empty list, and
\* makes its stream otherwise.
McCall ==
  /\ mc.pc = "idle"
  /\ Len(mc.returned) < 2
  /\ IF McEmpty(mc.trades)
     THEN mc' = [mc EXCEPT !.returned = Append(@, Null),
                           !.otherAt = Append(@, Len(drawn[1]))]
     ELSE mc' = [mc EXCEPT !.pc = "loop",
                           !.rng = IF mc.from.draws = 0
                                   THEN McRng(streams[1])
                                   ELSE mc.from.state,
                           !.sim = 0,
                           !.results = <<>>,
                           !.picked = <<>>,
                           !.otherAt = Append(@, Len(drawn[1]))]
  /\ UNCHANGED <<strategyVars, marketVars, book, ledger, metrics>>

\* One simulation: trades.length trades are drawn and the result is pushed.
McSimulation ==
  /\ mc.pc = "loop"
  /\ mc.sim < mc.numSimulations
  /\ \E end \in {Resample(mc.trades, 1,
                   [ rng |-> mc.rng,
                     equity |-> mc.startingCapital,
                     peak |-> mc.startingCapital,
                     maxDD |-> 0,
                     picked |-> <<>>,
                     thrown |-> FALSE ])} :
       IF end.thrown
       THEN mc' = [mc EXCEPT !.pc = "thrown", !.rng = end.rng,
                             !.picked = end.picked]
       ELSE mc' = [mc EXCEPT
                     !.sim = @ + 1,
                     !.rng = end.rng,
                     !.picked = end.picked,
                     !.results = Append(@,
                       [ finalEquity |-> end.equity,
                         totalReturn |->
                           MathRound((end.equity - mc.startingCapital) * 10000,
                                     mc.startingCapital),
                         maxDrawdown |-> end.maxDD ])]
  /\ UNCHANGED <<strategyVars, marketVars, book, ledger, metrics>>

\* The simulations are done: the results are sorted and the percentile
\* records returned.
McReturn ==
  /\ mc.pc = "loop"
  /\ mc.sim >= mc.numSimulations
  /\ mc' = [mc EXCEPT !.pc = "idle",
                      !.returned = Append(@, McRecord(mc.results,
                                                      mc.numSimulations))]
  /\ UNCHANGED <<strategyVars, marketVars, book, ledger, metrics>>

\* Between the calls the other stream is drawn from.
McOther == mc.pc = "idle" /\ Draw(1)

McNext == McCall \/ McSimulation \/ McReturn \/ McOther

McSpec == McInit /\ [][McNext]_vars

\* ------------------------------------- MarketData: generateHistoricalData
\* Times are in hours since a Sunday, 00:00 local time.  The local clock is
\* shifted by zone.shift hours from the time zone.change on: a day of the
\* local calendar then has 23 or 25 hours.  Prices are in cents.
Tickers == {"AAPL", "ZZZZ"}

\* Mutant: every ticker is taken to have the profile of AAPL.
ProfileOfAny(ticker) == [basePrice |-> BasePrice \div Scale]

\* STOCK_PROFILES[ticker]
Profile(ticker) ==
  IF ticker = "AAPL" THEN [basePrice |-> BasePrice \div Scale] ELSE Null

\* The start dates: any day of the week, at the first or the last hour of
\* the local day.
StartTimes == { 24 * day + hour : day \in 0..6, hour \in {0, 23} }

\* The local clocks: no change, or the clock set forward or back by an hour
\* in the night to Sunday or in the night to Friday.
Zones ==
  { [change |-> 0, shift |-> 0] }
    \cup { [change |-> c, shift |-> s] : c \in {24 * 7 + 2, 24 * 5 + 2},
                                          s \in {-1, 1} }

\* The closePrice a generated day can have: positive.
ClosePrices == {1, 18903}

\* currentDate.getDay(): 0 is Sunday, 6 is Saturday.
GetDay(t, zone) ==
  LET local == IF t >= zone.change THEN t + zone.shift ELSE t
  IN (local \div 24) % 7

\* Mutant: no date is skipped.
SkipWeekendsNot(t, zone) == t

\* while (getDay() === 0 || getDay() === 6) currentDate += 86400000 ms
RECURSIVE SkipWeekends(_, _)
SkipWeekends(t, zone) ==
  IF GetDay(t, zone) \in {0, 6} THEN SkipWeekends(t + 24, zone) ELSE t

\* The seeds of the days.
\* seed = seed * 1103515245 + 12345 is computed in doubles and is not masked:
\* from the second day on the seed is beyond 2^53 and has lost its low bits.
\* A seed is kept here as the whole number it is, in limbs of 15 bits, the
\* lowest first, and Double rounds a whole number to the 53 bits a double
\* holds.
SeedMultiplier == 1103515245
SeedIncrement == 12345
SeedFactor == 31337

Limb == 2^15

RECURSIVE BigOf(_)
BigOf(n) == IF n = 0 THEN <<>> ELSE <<n % Limb>> \o BigOf(n \div Limb)

\* The element of a set of one element: an intermediate result is bound as
\* such an element, and is then computed once however often it is read.
Only(S) == CHOOSE r \in S : TRUE

RECURSIVE Strip(_)
Strip(x) ==
  IF x = <<>> THEN <<>>
  ELSE IF Last(x) = 0 THEN Strip(SubSeq(x, 1, Len(x) - 1))
  ELSE x

RECURSIVE BigAdd(_, _, _)
BigAdd(x, y, carry) ==
  IF x = <<>> /\ y = <<>> THEN BigOf(carry)
  ELSE Only({ <<sum % Limb>> \o BigAdd(restX, restY, sum \div Limb) :
                sum \in {(IF x = <<>> THEN 0 ELSE Head(x))
                           + (IF y = <<>> THEN 0 ELSE Head(y)) + carry},
                restX \in {IF x = <<>> THEN <<>> ELSE Tail(x)},
                restY \in {IF y = <<>> THEN <<>> ELSE Tail(y)} })

\* x times a number below 2^15.
RECURSIVE BigScale(_, _, _)
BigScale(x, c, carry) ==
  IF x = <<>> THEN BigOf(carry)
  ELSE Only({ <<p % Limb>> \o BigScale(rest, c, p \div Limb) :
                p \in {Head(x) * c + carry}, rest \in {Tail(x)} })

RECURSIVE BigMul(_, _)
BigMul(x, y) ==
  IF y = <<>> THEN <<>>
  ELSE Only({ Strip(sum) :
                sum \in { BigAdd(low, high, 0) :
                            low \in {BigScale(x, Head(y), 0)},
                            high \in { <<0>> \o rest :
                                         rest \in {BigMul(x, Tail(y))} } } })

\* Bit i of x, and the number of bits of x.
Bit(x, i) ==
  IF i \div 15 + 1 > Len(x) THEN 0
  ELSE (x[i \div 15 + 1] \div 2^(i % 15)) % 2

BitLength(x) ==
  IF x = <<>> THEN 0
  ELSE 15 * (Len(x) - 1)
         + (CHOOSE k \in 1..15 : 2^(k - 1) <= Last(x) /\ Last(x) < 2^k)

\* The number of bits of the significand of a double.
Significand == 53

\* The double nearest to the whole number x, ties to even.
Double(x) ==
  LET d == BitLength(x) - Significand
      truncated == [ k \in DOMAIN x |->
                       IF 15 * k <= d THEN 0
                       ELSE IF 15 * (k - 1) < d
                            THEN (x[k] \div 2^(d - 15 * (k - 1)))
                                   * 2^(d - 15 * (k - 1))
                            ELSE x[k] ]
      roundUp == /\ Bit(x, d - 1) = 1
                 /\ \/ Bit(x, d) = 1
                    \/ \E i \in 0..(d - 2) : Bit(x, i) = 1
      ulp == [ k \in 1..(d \div 15 + 1) |->
                 IF k = d \div 15 + 1 THEN 2^(d % 15) ELSE 0 ]
  IN IF d <= 0 THEN x
     ELSE IF roundUp
          THEN Only({ Strip(sum) : sum \in {BigAdd(truncated, ulp, 0)} })
     ELSE truncated

\* The double seed * factor + increment, the product being a double too.
Affine(seed, factor, increment) ==
  Only({ Double(sum) :
           sum \in { BigAdd(product, BigOf(increment), 0) :
                       product \in { Double(exact) :
                                       exact \in {BigMul(seed, BigOf(factor))} } } })

\* x & 0xFFFFFFFF: the low 32 bits of the whole number.
Low32(x) ==
  LET limb(k) == IF k \in DOMAIN x THEN x[k] ELSE 0
  IN [ lo |-> limb(1) + (limb(2) % 2) * 2^15,
       hi |-> limb(2) \div 2 + (limb(3) % 4) * 2^14 ]

\* seed = seed * 1103515245 + 12345
NextSeed(seed) == Affine(seed, SeedMultiplier, SeedIncrement)

\* The variable s of the stream seededRandom(seed) after the first call of
\* rng: (seed * 1664525 + 1013904223) & 0xFFFFFFFF, the product and the sum
\* being doubles.  It is all that the values of the stream depend on.
FirstState(seed) ==
  Only({ Low32(s) : s \in {Affine(seed, Multiplier, Increment)} })

\* ticker.charCodeAt(0) and ticker.charCodeAt(1): "A" and "P", or "Z".
CharCode(ticker, k) ==
  IF ticker = "AAPL" THEN (IF k = 0 THEN 65 ELSE 80) ELSE 90

\* The baseSeed Backtester.run passes: ticker.charCodeAt(0) * 31337.
BaseSeed(ticker) == CharCode(ticker, 0) * SeedFactor

\* let seed = baseSeed || (charCodeAt(0) * 10000 + charCodeAt(1) * 100)
FirstSeed(ticker, baseSeed) ==
  BigOf(IF baseSeed # 0 THEN baseSeed
        ELSE CharCode(ticker, 0) * 10000 + CharCode(ticker, 1) * 100)

\* generateIntradayData(ticker, date, seed, prevClose) as its caller sees
\* it: null for a ticker without profile, and else the day with the base
\* price it took (prevClose || profile.basePrice) and the closePrice it
\* reached, which is given.  HistDay adds to the day the state its stream
\* seededRandom(seed) had after the first draw.
DayData(ticker, date, prevClose, close) ==
  IF Profile(ticker) = Null THEN Null
  ELSE [ date |-> date,
         basePrice |-> IF prevClose # 0 THEN prevClose
                       ELSE Profile(ticker).basePrice,
         closePrice |-> close ]

\* generateHistoricalData up to its loop.  prevClose of a ticker without
\* profile is undefined, which is 0 here: both are falsy.
HistInit ==
  /\ \E ticker \in Tickers, numDays \in 0..MaxDays, start \in StartTimes,
        zone \in Zones :
     \E baseSeed \in {0, BaseSeed(ticker)} :
       hist = [ pc |-> "loop",
                ticker |-> ticker,
                baseSeed |-> baseSeed,
                seed |-> FirstSeed(ticker, baseSeed),
                numDays |-> numDays,
                zone |-> zone,
                d |-> 0,
                currentDate |-> start,
                prevClose |-> IF Profile(ticker) = Null THEN 0
                              ELSE Profile(ticker).basePrice,
                calls |-> 0,
                days |-> <<>> ]
  /\ tick = NoTick
  /\ streams = <<>>
  /\ drawn = <<>>
  /\ gen = [pc |-> "none"]
  /\ book = NoBook
  /\ NoAnalysis
  /\ NoStrategy

\* One iteration of the loop: the weekend is skipped, the seed moves on,
\* the day is generated and pushed unless it is null, and the date moves on
\* by 24 hours.
HistDay ==
  /\ hist.pc = "loop"
  /\ hist.d < hist.numDays
  /\ \E close \in ClosePrices :
     \E date \in {SkipWeekends(hist.currentDate, hist.zone)} :
     \E seed \in {NextSeed(hist.seed)} :
     \E dayData \in {DayData(hist.ticker, date, hist.prevClose, close)} :
       hist' = [ hist EXCEPT
                   !.d = @ + 1,
                   !.seed = seed,
                   !.currentDate = date + 24,
                   !.calls = @ + 1,
                   !.days = IF dayData = Null THEN @
                            ELSE Append(@, Spread(dayData,
                                   [stream |-> FirstState(seed)])),
                   !.prevClose = IF dayData = Null THEN @
                                 ELSE dayData.closePrice ]
  /\ UNCHANGED <<streams, drawn, gen, tick, strategyVars, backtestVars>>

\* return days
HistReturn ==
  /\ hist.pc = "loop"
  /\ hist.d >= hist.numDays
  /\ hist' = [hist EXCEPT !.pc = "done"]
  /\ UNCHANGED <<streams, drawn, gen, tick, strategyVars, backtestVars>>

HistNext == HistDay \/ HistReturn

HistSpec == HistInit /\ [][HistNext]_vars

\* ---------------------------------------- MarketData: createTickSimulator
\* Two simulators of a known ticker made at the same millisecond, and so
\* with the same seed, from the same start price: the caller of the first
\* also asks for the current price, the caller of the second never does.
\* Prices are in hundredths of a cent; a step of the normal deviate moves the
\* price by TickStep.  The timestamp of a tick is left out.
TickStep == 35

Simulators == {1, 2}

\* Mutant: getCurrentPrice takes a value from the stream.
AfterGetDrawing(sim) == [sim EXCEPT !.rng = LcgStep(@)]

\* getCurrentPrice() { return parseFloat(currentPrice.toFixed(2)); }: what it
\* leaves of the simulator's variables.
AfterGet(sim) == sim

\* nextTick(): the variables it leaves and the tick it returns.
NextTickOf(sim) ==
  LET Moved(noise) ==
        LET Priced(price) ==
              LET Sized(draw) ==
                    [ sim |-> [ currentPrice |-> price,
                                tickCount |-> sim.tickCount + 1,
                                rng |-> draw.state ],
                      tick |-> [ price |-> Round2(price, TRUE),
                                 bid |-> Round2(price - price \div 10000, TRUE),
                                 ask |-> Round2(price + price \div 10000, TRUE),
                                 volume |-> 100 + MathRound(500 * Eighths(draw.value), 8),
                                 tickNumber |-> sim.tickCount + 1 ] ]
              IN Sized(Rng(noise.state))
        IN Priced(sim.currentPrice + noise.value * TickStep)
  IN Moved(normalRandom(sim.rng))

TickInit ==
  /\ \E seed \in Seeds :
       tick = [ pc |-> "live",
                start |-> BasePrice,
                sims |-> [ s \in Simulators |->
                             [ currentPrice |-> BasePrice,
                               tickCount |-> 0,
                               rng |-> seededRandom(seed) ] ],
                ticks |-> [s \in Simulators |-> <<>>],
                seen |-> <<>> ]
  /\ hist = NoHist
  /\ streams = <<>>
  /\ drawn = <<>>
  /\ gen = [pc |-> "none"]
  /\ book = NoBook
  /\ NoAnalysis
  /\ NoStrategy

\* A caller takes the next tick of a simulator.
NextTick(s) ==
  /\ tick.pc = "live"
  /\ Len(tick.ticks[s]) < MaxTicks
  /\ \E next \in {NextTickOf(tick.sims[s])} :
       tick' = [ tick EXCEPT !.sims[s] = next.sim,
                             !.ticks[s] = Append(@, next.tick) ]
  /\ UNCHANGED <<streams, drawn, gen, hist, strategyVars, backtestVars>>

\* The caller of the first simulator asks for the current price.
GetCurrentPrice ==
  /\ tick.pc = "live"
  /\ Len(tick.seen) < MaxTicks
  /\ tick' = [ tick EXCEPT
                 !.sims[1] = AfterGet(@),
                 !.seen = Append(@,
                   [ price |-> Round2(tick.sims[1].currentPrice, TRUE),
                     after |-> tick.sims[1].tickCount ]) ]
  /\ UNCHANGED <<streams, drawn, gen, hist, strategyVars, backtestVars>>

TickNext == (\E s \in Simulators : NextTick(s)) \/ GetCurrentPrice

TickSpec == TickInit /\ [][TickNext]_vars

\* ------------------------------------------------ MarketData: normalRandom
\* One call of normalRandom after another on one stream, a step for each
\* call of rng.  streams[1] is the variable s of the stream, drawn the values
\* the call has been given so far, gen the locals of the call.
\* The seeds: small ones; those from which the first, the second and the
\* third value of the stream is exactly 0; and 0xFFFFFFFF.  (Seeds are
\* written as the signed 32-bit numbers the mask leaves.)
NormalSeeds == (0..MaxSeed) \cup {634785765, -144243938, 1869465083, -1}

\* u1 === 0
ExactlyZero(u) == u.num.hi = 0 /\ u.num.lo = 0

NormalInit ==
  /\ \E seed \in NormalSeeds : streams = <<seededRandom(seed)>>
  /\ drawn = <<>>
  /\ gen = [pc |-> "u1", calls |-> 1, from |-> streams[1], redraws |-> 0]
  /\ NoFeed
  /\ NoStrategy
  /\ book = NoBook
  /\ NoAnalysis

\* let u1 = rng()
NormalFirst ==
  /\ gen.pc = "u1"
  /\ \E draw \in {Rng(streams[1])} :
       /\ streams' = <<draw.state>>
       /\ drawn' = Append(drawn, draw.value)
       /\ gen' = Spread([gen EXCEPT !.pc = "u2"], [u1 |-> draw.value])
  /\ UNCHANGED <<hist, tick, strategyVars, backtestVars>>

\* let u2 = rng()
NormalSecond ==
  /\ gen.pc = "u2"
  /\ \E draw \in {Rng(streams[1])} :
       /\ streams' = <<draw.state>>
       /\ drawn' = Append(drawn, draw.value)
       /\ gen' = Spread([gen EXCEPT !.pc = "while"], [u2 |-> draw.value])
  /\ UNCHANGED <<hist, tick, strategyVars, backtestVars>>

\* while (u1 === 0) u1 = rng(): one iteration.
NormalRedraw ==
  /\ gen.pc = "while"
  /\ ExactlyZero(gen.u1)
  /\ gen.redraws < MaxDraws
  /\ \E draw \in {Rng(streams[1])} :
       /\ streams' = <<draw.state>>
       /\ drawn' = Append(drawn, draw.value)
       /\ gen' = [gen EXCEPT !.u1 = draw.value, !.redraws = @ + 1]
  /\ UNCHANGED <<hist, tick, strategyVars, backtestVars>>

\* return Math.sqrt(-2.0 * Math.log(u1)) * Math.cos(2.0 * Math.PI * u2)
NormalReturn ==
  /\ gen.pc = "while"
  /\ ~ExactlyZero(gen.u1)
  /\ gen' = Spread([gen EXCEPT !.pc = "returned"],
                   [value |-> Magnitude(gen.u1) * CosSign(gen.u2)])
  /\ UNCHANGED <<streams, drawn, hist, tick, strategyVars, backtestVars>>

\* The caller calls normalRandom again with the same stream.
NormalAgain ==
  /\ gen.pc = "returned"
  /\ gen.calls < MaxDraws
  /\ gen' = [pc |-> "u1", calls |-> gen.calls + 1, from |-> streams[1],
             redraws |-> 0]
  /\ drawn' = <<>>
  /\ UNCHANGED <<streams, hist, tick, strategyVars, backtestVars>>

NormalNext ==
  \/ NormalFirst
  \/ NormalSecond
  \/ NormalRedraw
  \/ NormalReturn
  \/ NormalAgain

\* A call runs to its end: nothing else runs while it does.
NormalSpec == NormalInit /\ [][NormalNext]_vars /\ WF_vars(NormalNext)

\* ================================================================== claims
\* Every trade of the day so far: the closed ones and the open one.
AllTrades ==
  { trades[k] : k \in DOMAIN trades }
    \cup (IF activeTrade = NoTrade THEN {} ELSE {activeTrade})

\* In a step that began with a trade open: that trade after the step, still
\* open or as it was pushed to trades.
TradeAfter == IF activeTrade' # NoTrade THEN activeTrade' ELSE Last(trades')

\* The trades opened so far today.
Opened == Len(trades) + (IF activeTrade = NoTrade THEN 0 ELSE 1)

\* C1. Share conservation: in every closed trade, whatever the exit path, the
\* shares of its partial exits add up to the trade's original shares.
C1_ShareConservation ==
  \A k \in DOMAIN trades :
    SeqSum(SharesOf(trades[k].partialExits)) = trades[k].shares

\* A trade that took two targets and was then stopped out.
C1_Witness ==
  \E k \in DOMAIN trades :
    /\ Len(trades[k].partialExits) >= 3
    /\ trades[k].exitReason = "Stop Loss"

\* C2. Stop monotonicity: over every step taken with a trade open, the
\* currentStop of a LONG trade does not decrease and that of a SHORT trade
\* does not increase, by the break-even move or by the trailing update.
C2_StopMonotone ==
  [][ activeTrade # NoTrade =>
        /\ activeTrade.direction = "LONG" =>
             TradeAfter.currentStop >= activeTrade.currentStop
        /\ activeTrade.direction = "SHORT" =>
             TradeAfter.currentStop <= activeTrade.currentStop ]_vars

\* An open SHORT trade whose stop the trailing update has lowered.
C2_Witness ==
  /\ activeTrade # NoTrade
  /\ activeTrade.direction = "SHORT"
  /\ ~config.usePartialProfits
  /\ activeTrade.currentStop < activeTrade.stopLoss

\* C3. No overnight exposure: when runDay has returned no trade is open, and
\* every returned trade has remainingShares = 0 and an exitTime on or before
\* the time of the last candle processed.
C3_NoOvernight ==
  pc = "done" =>
    /\ activeTrade = NoTrade
    /\ \A k \in DOMAIN trades :
         /\ trades[k].remainingShares = 0
         /\ trades[k].exitTime <= idx - 1

\* A day of two trades, the second closed by the end of the day.
C3_Witness ==
  /\ pc = "done"
  /\ Len(trades) = 2
  /\ trades[2].exitReason = "End of Day"

\* C4. One trade at a time: a trade that is open is never replaced by another
\* in one step, and each trade's entryTime is strictly after the exitTime of
\* the trade closed before it.
C4_OneTradeAtATime ==
  /\ [](/\ \A k \in 1..(Len(trades) - 1) :
             trades[k + 1].entryTime > trades[k].exitTime
        /\ (activeTrade # NoTrade /\ trades # <<>>) =>
             activeTrade.entryTime > Last(trades).exitTime)
  /\ [][ (activeTrade # NoTrade /\ activeTrade' # NoTrade) =>
           /\ activeTrade'.entryTime = activeTrade.entryTime
           /\ trades' = trades ]_vars

\* A second trade opened on the candle after the one that closed the first.
C4_Witness ==
  /\ Len(trades) = 1
  /\ activeTrade # NoTrade
  /\ activeTrade.entryTime = trades[1].exitTime + 1

\* C5. Stop-loss priority: on a candle that breaches the stop of the open
\* trade, the trade is closed on that candle with reason "Stop Loss" by one
\* terminal exit of all remaining shares at currentStop; no time exit, no
\* partial-profit exit and no stop update is applied on that candle.
C5_StopLossFirst ==
  [][ (pc' = "loop" /\ activeTrade # NoTrade /\ candle'.stopHit) =>
        /\ activeTrade' = NoTrade
        /\ Len(trades') = Len(trades) + 1
        /\ Last(trades').exitReason = "Stop Loss"
        /\ Last(trades').exitTime = idx
        /\ Last(trades').remainingShares = 0
        /\ Last(trades').currentStop = activeTrade.currentStop
        /\ Last(trades').partialExits =
             Append(activeTrade.partialExits,
                    [ time |-> idx,
                      price |-> activeTrade.currentStop,
                      shares |-> activeTrade.remainingShares,
                      target |-> -1,
                      pnl |-> Sign(activeTrade.direction)
                                * (activeTrade.currentStop - activeTrade.entryPrice)
                                * activeTrade.remainingShares ]) ]_vars

\* A stop breached on a candle on which the holding time had also run out.
C5_Witness ==
  /\ candle.stopHit
  /\ trades # <<>>
  /\ Last(trades).exitTime = idx - 1
  /\ Last(trades).exitReason = "Stop Loss"
  /\ Last(trades).exitTime - Last(trades).entryTime >= config.maxHoldingMinutes

\* An iteration of the loop that began with no trade open and the day's trade
\* count below the maximum, under close confirmation.
C6_EntryStep ==
  /\ pc = "loop" /\ pc' = "loop" /\ idx' = idx + 1
  /\ activeTrade = NoTrade
  /\ tradesCount < config.maxTradesPerDay
  /\ config.confirmationType = "close"

C6_Opens(direction, stop) ==
  /\ activeTrade' # NoTrade
  /\ activeTrade'.direction = direction
  /\ activeTrade'.entryTime = idx
  /\ activeTrade'.entryPrice = candle'.close
  /\ activeTrade'.stopLoss = stop
  /\ activeTrade'.currentStop = stop
  /\ config.positionSizing # "fixed_risk" => activeTrade'.shares = FixedShares

\* The size of a position entered at the close with the given stop is
\* positive: always under fixed shares; under fixed risk when the risk amount
\* covers the risk of one share.
C6_SizePositive(stop) ==
  config.positionSizing = "fixed_risk" =>
    /\ candle'.close # stop
    /\ accountSize * config.riskPerTrade >= Scale * Abs(candle'.close - stop)

\* C6 as claimed: with no trade open, the count below the maximum and the
\* volume confirmed, a close above the range high opens a LONG trade at that
\* close with stop = range low - buffer, a close below the range low a SHORT
\* with stop = range high + buffer, 100 shares under fixed-shares sizing.
C6_Original ==
  [][ C6_EntryStep =>
        /\ candle'.breakout = "above" =>
             C6_Opens("LONG", or.low - config.stopLossBuffer)
        /\ candle'.breakout = "below" =>
             C6_Opens("SHORT", or.high + config.stopLossBuffer) ]_vars

\* C6, amended: the same, provided the position size is positive.
C6_EntryOnBreakout ==
  [][ C6_EntryStep =>
        /\ (/\ candle'.breakout = "above"
            /\ C6_SizePositive(or.low - config.stopLossBuffer)) =>
             C6_Opens("LONG", or.low - config.stopLossBuffer)
        /\ (/\ candle'.breakout = "below"
            /\ C6_SizePositive(or.high + config.stopLossBuffer)) =>
             C6_Opens("SHORT", or.high + config.stopLossBuffer) ]_vars

\* A SHORT just opened under close confirmation and fixed-risk sizing.
C6_Witness ==
  /\ activeTrade # NoTrade
  /\ activeTrade.direction = "SHORT"
  /\ activeTrade.entryTime = idx - 1
  /\ candle.breakout = "below"
  /\ config.confirmationType = "close"
  /\ config.positionSizing = "fixed_risk"

\* C7. Stop-loss accounting: a trade stopped out with no partial exit before
\* closes by one terminal exit priced at currentStop, and its totalPnL is
\* sign x (currentStop - entryPrice) x shares; 101.50 -> 99.90 on 100 shares
\* LONG is -160.00.
C7_StopLossPnL ==
  /\ \A k \in DOMAIN trades :
       (trades[k].exitReason = "Stop Loss" /\ Len(trades[k].partialExits) = 1) =>
         /\ trades[k].partialExits[1].price = trades[k].currentStop
         /\ trades[k].partialExits[1].target = -1
         /\ trades[k].totalPnL =
              Sign(trades[k].direction)
                * (trades[k].currentStop - trades[k].entryPrice) * trades[k].shares
  /\ TerminalExit([direction |-> "LONG", entryPrice |-> 10150,
                   remainingShares |-> 100], 0, 9990).pnl = -16000

\* A SHORT stopped out at a loss with no partial exit.
C7_Witness ==
  \E k \in DOMAIN trades :
    /\ trades[k].direction = "SHORT"
    /\ trades[k].exitReason = "Stop Loss"
    /\ Len(trades[k].partialExits) = 1
    /\ trades[k].totalPnL < 0

\* C8. End-of-day close: a trade open when the candles are exhausted is closed
\* by one terminal exit (target -1) of all remaining shares at the last
\* candle's close, with exitReason "End of Day", exitTime the last candle's
\* time and remainingShares 0.
C8_EndOfDayClose ==
  [][ (pc = "loop" /\ pc' = "done" /\ activeTrade # NoTrade) =>
        /\ activeTrade' = NoTrade
        /\ Len(trades') = Len(trades) + 1
        /\ Last(trades').exitReason = "End of Day"
        /\ Last(trades').exitTime = idx - 1
        /\ Last(trades').remainingShares = 0
        /\ Last(trades').partialExits =
             Append(activeTrade.partialExits,
                    [ time |-> idx - 1,
                      price |-> candle.close,
                      shares |-> activeTrade.remainingShares,
                      target |-> -1,
                      pnl |-> Sign(activeTrade.direction)
                                * (candle.close - activeTrade.entryPrice)
                                * activeTrade.remainingShares ]) ]_vars

\* A trade closed by the end of the day after it had taken a target.
C8_Witness ==
  /\ pc = "done"
  /\ trades # <<>>
  /\ Last(trades).exitReason = "End of Day"
  /\ Len(Last(trades).partialExits) >= 2

\* C9. Trades per day: at most maxTradesPerDay trades are opened, and a trade
\* is opened only in a step that began with no trade open and the day's count
\* below maxTradesPerDay.
C9_MaxTradesPerDay ==
  /\ [](Opened <= config.maxTradesPerDay /\ tradesCount <= config.maxTradesPerDay)
  /\ [][ Opened' > Opened =>
           /\ activeTrade = NoTrade
           /\ tradesCount < config.maxTradesPerDay ]_vars

\* A confirmed breakout passed over because the day's count is used up.
C9_Witness ==
  /\ pc = "loop"
  /\ activeTrade = NoTrade
  /\ tradesCount = config.maxTradesPerDay
  /\ candle.breakout # "none"

\* C10. remainingShares in bounds: every trade has shares >= 1 and
\* 0 <= remainingShares <= shares, every recorded partial exit has
\* shares > 0, and no step raises the remainingShares of the open trade.
C10_RemainingShares ==
  /\ [](\A t \in AllTrades :
          /\ t.shares >= 1
          /\ 0 <= t.remainingShares /\ t.remainingShares <= t.shares
          /\ \A k \in DOMAIN t.partialExits : t.partialExits[k].shares > 0)
  /\ [][ activeTrade # NoTrade =>
           TradeAfter.remainingShares <= activeTrade.remainingShares ]_vars

\* An open trade part of which has been closed at a target.
C10_Witness ==
  /\ activeTrade # NoTrade
  /\ 0 < activeTrade.remainingShares
  /\ activeTrade.remainingShares < activeTrade.shares

\* C11. P&L accounting: the totalPnL of every closed trade is the sum of the
\* pnl of its partial exits, and the pnl of each partial exit is
\* sign(direction) x (price of the exit - entryPrice) x shares of the exit.
C11_PnLAccounting ==
  \A k \in DOMAIN trades :
    /\ trades[k].totalPnL = SeqSum(PnlOf(trades[k].partialExits))
    /\ \A j \in DOMAIN trades[k].partialExits :
         trades[k].partialExits[j].pnl =
           Sign(trades[k].direction)
             * (trades[k].partialExits[j].price - trades[k].entryPrice)
             * trades[k].partialExits[j].shares

\* C12. Maximum holding time: a candle that does not breach the stop of the
\* open trade and whose time is maxHoldingMinutes or more after the entry
\* closes the trade on that candle with reason "Max Time" by one terminal
\* exit of all remaining shares at the candle's close; hence no trade is open
\* after a later candle whose time is maxHoldingMinutes or more after its
\* entry.
C12_MaxHoldingTime ==
  /\ [][ (/\ pc' = "loop" /\ activeTrade # NoTrade
          /\ ~candle'.stopHit
          /\ idx - activeTrade.entryTime >= config.maxHoldingMinutes) =>
           /\ activeTrade' = NoTrade
           /\ Len(trades') = Len(trades) + 1
           /\ Last(trades').exitReason = "Max Time"
           /\ Last(trades').exitTime = idx
           /\ Last(trades').remainingShares = 0
           /\ Last(trades').partialExits =
                Append(activeTrade.partialExits,
                       [ time |-> idx,
                         price |-> candle'.close,
                         shares |-> activeTrade.remainingShares,
                         target |-> -1,
                         pnl |-> Sign(activeTrade.direction)
                                   * (candle'.close - activeTrade.entryPrice)
                                   * activeTrade.remainingShares ]) ]_vars
  /\ [](activeTrade # NoTrade /\ idx - 1 > activeTrade.entryTime =>
          idx - 1 - activeTrade.entryTime < config.maxHoldingMinutes)

\* A trade that took a target and was closed when its holding time ran out.
C12_Witness ==
  /\ trades # <<>>
  /\ Last(trades).exitReason = "Max Time"
  /\ Last(trades).exitTime = idx - 1
  /\ Last(trades).exitTime - Last(trades).entryTime = config.maxHoldingMinutes
  /\ Len(Last(trades).partialExits) >= 2
  /\ Last(Last(trades).partialExits).price = candle.close

\* C13. Trailing stop and partial profits are mutually exclusive: with
\* usePartialProfits enabled the currentStop of every trade is its stopLoss
\* or its entryPrice, whatever trailingStop says; with both disabled it is the
\* stopLoss; so a stop that was trailed implies trailingStop enabled and
\* usePartialProfits disabled.
C13_TrailingExcludesPartials ==
  \A t \in AllTrades :
    /\ config.usePartialProfits =>
         t.currentStop \in {t.stopLoss, t.entryPrice}
    /\ (~config.usePartialProfits /\ ~config.trailingStop) =>
         t.currentStop = t.stopLoss
    /\ t.currentStop \notin {t.stopLoss, t.entryPrice} =>
         config.trailingStop /\ ~config.usePartialProfits

\* With partial profits and the trailing stop both enabled, an open trade
\* whose profit reached the trailing activation and whose stop was not moved.
C13_Witness ==
  /\ activeTrade # NoTrade
  /\ config.usePartialProfits /\ config.trailingStop
  /\ or.rangeSize > 0
  /\ activeTrade.mfe * Scale >= config.trailingStopActivation * or.rangeSize
  /\ activeTrade.currentStop = activeTrade.stopLoss

\* The candles the opening range is computed from: the first
\* openingRangeMinutes of the day.
C14_First == SubSeq(dayCandles, 1, config.openingRangeMinutes)

C15_InsufficientCandles ==
  Len(dayCandles) < config.openingRangeMinutes =>
    /\ pc = "start" => ENABLED StartDay
    /\ RangeOf(dayCandles, config) = Null
    /\ pc # "start" =>
         /\ pc = "done"
         /\ or = Null
         /\ trades = <<>>
         /\ signals = <<>>
         /\ activeTrade = NoTrade

\* runDay has returned from a day of one candle under a two-minute range.
C15_Witness ==
  /\ pc = "done"
  /\ Len(dayCandles) = 1
  /\ config.openingRangeMinutes = 2
  /\ or = Null

\* The stop of the breakout the last candle made, and floor(accountSize x
\* riskPerTrade / |entry - stop|) for an entry at that candle's close.
C16_Stop ==
  IF candle'.breakout = "above" THEN or.low - config.stopLossBuffer
  ELSE or.high + config.stopLossBuffer

C16_RiskPerShare == Abs(candle'.close - C16_Stop)

C16_Floor == (accountSize * config.riskPerTrade) \div (Scale * C16_RiskPerShare)

C16_Size ==
  calculatePositionSize(accountSize, config.riskPerTrade, candle'.close, C16_Stop)

\* C16. Position sizing: on a breakout under fixed-risk sizing the size is
\* floor(accountSize x riskPerTrade / |entry - stop|); calculatePositionSize
\* yields 0 whenever that floor is not positive or the risk per share is <= 0;
\* and a breakout whose size is not positive opens no trade and leaves the
\* day's trade count as it was.
C16_PositionSizing ==
  [][ (/\ C6_EntryStep
       /\ config.positionSizing = "fixed_risk"
       /\ candle'.breakout # "none") =>
        /\ C16_RiskPerShare > 0 /\ C16_Floor > 0 =>
             /\ C16_Size = C16_Floor
             /\ activeTrade' # NoTrade /\ activeTrade'.shares = C16_Floor
        /\ (C16_RiskPerShare <= 0 \/ C16_Floor <= 0) => C16_Size = 0
        /\ C16_Size <= 0 =>
             /\ activeTrade' = NoTrade
             /\ tradesCount' = tradesCount
             /\ trades' = trades ]_vars

\* C17. PRNG range: every value a stream made by seededRandom(seed) returns
\* lies in [0, 1): it is at least 0 and never equal to 1, for every seed and
\* after any number of draws.
C17_UnitInterval ==
  \A run \in DOMAIN drawn :
    \A k \in DOMAIN drawn[run] :
      LET v == drawn[run][k]
      IN \/ v.num.hi < v.den.hi
         \/ v.num.hi = v.den.hi /\ v.num.lo < v.den.lo

C19_ValidCandles ==
  /\ [](gen.pc \in {"loop", "done"} =>
          /\ gen.count > 0 =>
               /\ gen.last.low <= Min(gen.last.open, gen.last.close)
               /\ Max(gen.last.open, gen.last.close) <= gen.last.high
               /\ gen.last.volume >= 0
          /\ gen.pc = "done" => gen.count = 390)
  /\ [][ (gen.pc = "loop" /\ gen'.pc = "loop") =>
           /\ gen'.count = gen.count + 1
           /\ gen.count > 0 => gen'.last.time = gen.last.time + 1 ]_vars

\* A candle past the opening range that closed, in cents, on its high and
\* above its open: the close, not the intraminute high, is the maximum.
C19_Witness ==
  /\ gen.pc = "loop"
  /\ gen.count > OrPeriod
  /\ gen.last.close = gen.last.high
  /\ gen.last.open < gen.last.close
  /\ gen.last.volume > 0

\* C20. Backtest cost model: every trade Backtester.run records carries, to
\* the nearest cent, commission = shares x commission rate x 2, slippage =
\* slippage x 2 and netPnL = totalPnL - shares x commission rate x 2 -
\* slippage x 2, where shares is the size the trade was entered with, the
\* sum of the shares of all its exits.
C20_CostModel ==
  book.pc = "recorded" =>
    /\ Len(book.allTrades) = Len(trades)
    /\ \A k \in DOMAIN book.allTrades :
         LET t == book.allTrades[k]
             shares == SeqSum(SharesOf(trades[k].partialExits))
             commissionCost == shares * book.config.commission * 2
             slippageCost == book.config.slippage * 2
             net == trades[k].totalPnL * Scale - commissionCost - slippageCost
         IN /\ t.shares = shares
            /\ 2 * Abs(t.commission * Scale - commissionCost) <= Scale
            /\ 2 * Abs(t.slippage * Scale - slippageCost) <= Scale
            /\ 2 * Abs(t.netPnL * Scale - net) <= Scale
            /\ t.grossPnL = trades[k].totalPnL

\* The statement without the rounding: the recorded amounts are the exact
\* products, and the recorded netPnL is the recorded gross less the recorded
\* costs.
C20_CostModelExact ==
  book.pc = "recorded" =>
    \A k \in DOMAIN book.allTrades :
      LET t == book.allTrades[k]
      IN /\ t.commission * Scale = t.shares * book.config.commission * 2
         /\ t.slippage * Scale = book.config.slippage * 2
         /\ t.netPnL = t.totalPnL - t.commission - t.slippage

\* A recorded trade that left in more than one exit, at a commission rate
\* whose cost for the trade's size is not a whole number of cents.
C20_Witness ==
  /\ book.pc = "recorded"
  /\ \E k \in DOMAIN book.allTrades :
       /\ Len(book.allTrades[k].partialExits) >= 2
       /\ (book.allTrades[k].shares * book.config.commission * 2) % Scale # 0

\* The largest equity of the points of a curve.
RECURSIVE CurveMax(_)
CurveMax(curve) ==
  IF Len(curve) = 1 THEN curve[1].equity
  ELSE Max(curve[1].equity, CurveMax(Tail(curve)))

C22_OnePointPerDay ==
  ledger.pc \in {"loop", "done"} =>
    /\ Len(ledger.equityCurve) = ledger.d + 1
    /\ ledger.pc = "done" => Len(ledger.equityCurve) = ledger.days + 1
    /\ \A k \in DOMAIN ledger.equityCurve : ledger.equityCurve[k].day = k - 1
    /\ \A k \in 2..Len(ledger.equityCurve) :
         ledger.equityCurve[k].trades = 0 =>
           /\ ledger.equityCurve[k].pnl = 0
           /\ ledger.equityCurve[k].equity = ledger.equityCurve[k - 1].equity

\* A returned backtest with a day without trades after a day with trades
\* that changed the equity.
C22_Witness ==
  /\ ledger.pc = "done"
  /\ ledger.days >= 2
  /\ \E k \in 3..Len(ledger.equityCurve) :
       /\ ledger.equityCurve[k].trades = 0
       /\ ledger.equityCurve[k - 1].trades > 0
       /\ ledger.equityCurve[k - 1].pnl # 0

\* The gross profit and the gross loss of a list of netPnL.
RECURSIVE GrossOf(_, _)
GrossOf(ts, sign) ==
  IF ts = <<>> THEN 0
  ELSE (IF sign * Head(ts) > 0 THEN sign * Head(ts) ELSE 0)
         + GrossOf(Tail(ts), sign)

\* C23. Profit factor edge cases: computeMetrics returns profitFactor = 0
\* when gross profit and gross loss are both 0 (an empty trade list, or
\* trades whose netPnL are all 0), +infinity when the gross loss is 0 and
\* the gross profit positive (so for a list without losing trades), and
\* grossProfit / grossLoss to 2 decimals otherwise; it is never NaN.
C23_ProfitFactor ==
  metrics.pc = "done" =>
    LET gp == GrossOf(metrics.trades, 1)
        gl == GrossOf(metrics.trades, -1)
        pf == metrics.result.profitFactor
    IN /\ pf # NotANumber
       /\ metrics.result.grossProfit = gp
       /\ metrics.result.grossLoss = gl
       /\ (gp = 0 /\ gl = 0) => pf = Finite(0)
       /\ (gp > 0 /\ gl = 0) => pf = PlusInfinity
       /\ gl > 0 =>
            /\ pf.kind = "finite"
            /\ 2 * Abs(pf.value * gl - 100 * gp) <= gl

\* The statement with its third case taken for every list that is neither
\* empty nor without losing trades.
C23_Original ==
  metrics.pc = "done" =>
    LET gp == GrossOf(metrics.trades, 1)
        gl == GrossOf(metrics.trades, -1)
        pf == metrics.result.profitFactor
        noLosers == \A k \in DOMAIN metrics.trades : metrics.trades[k] > 0
    IN /\ pf # NotANumber
       /\ metrics.trades = <<>> => pf = Finite(0)
       /\ (noLosers /\ gp > 0) => pf = PlusInfinity
       /\ (metrics.trades # <<>> /\ ~(noLosers /\ gp > 0)) =>
            pf = Divide(gp, gl)

\* Metrics of a list that has trades, all of them with netPnL 0.
C23_Witness ==
  /\ metrics.pc = "done"
  /\ Len(metrics.trades) >= 2
  /\ \A k \in DOMAIN metrics.trades : metrics.trades[k] = 0
  /\ metrics.result.losers = Len(metrics.trades)

\* C24. Monte Carlo percentile ordering: for a non-empty trade list the
\* records monteCarloSimulation returns have worstCase.finalEquity <=
\* percentile5 <= percentile25 <= median <= percentile75 <= percentile95
\* <= bestCase.finalEquity.
C24_PercentileOrder ==
  mc.pc # "none" =>
    \A k \in DOMAIN mc.returned :
      mc.returned[k] # Null =>
        LET r == mc.returned[k]
        IN /\ r.worstCase.finalEquity <= r.percentile5.finalEquity
           /\ r.percentile5.finalEquity <= r.percentile25.finalEquity
           /\ r.percentile25.finalEquity <= r.median.finalEquity
           /\ r.median.finalEquity <= r.percentile75.finalEquity
           /\ r.percentile75.finalEquity <= r.percentile95.finalEquity
           /\ r.percentile95.finalEquity <= r.bestCase.finalEquity

\* A call has returned whose simulations did not end in ascending order of
\* final equity, and whose worst case is below its best.
C24_Witness ==
  /\ mc.pc = "idle"
  /\ Len(mc.returned) >= 1
  /\ mc.returned[1] # Null
  /\ \E i, j \in DOMAIN mc.results :
       i < j /\ mc.results[i].finalEquity > mc.results[j].finalEquity
  /\ mc.returned[1].worstCase.finalEquity < mc.returned[1].bestCase.finalEquity
  /\ mc.returned[1].percentile5.finalEquity < mc.returned[1].percentile95.finalEquity

\* C25. Monte Carlo resampling draws are valid: each simulation draws
\* exactly len(trades) trades, each drawn index is an integer in
\* 0..len(trades)-1, and the final equity of the simulation is
\* startingCapital plus the sum of the netPnL of the drawn trades.
C25_ValidDraws ==
  mc.pc \in {"loop", "thrown", "idle"} =>
    /\ \A k \in DOMAIN mc.picked : mc.picked[k] \in 0..(Len(mc.trades) - 1)
    /\ mc.pc # "thrown"
    /\ (mc.results # <<>> /\ mc.picked # <<>>) =>
         /\ Len(mc.picked) = Len(mc.trades)
         /\ Last(mc.results).finalEquity =
              mc.startingCapital
                + SeqSum([k \in DOMAIN mc.picked |-> mc.trades[mc.picked[k] + 1]])

\* C26. Monte Carlo determinism: two calls of monteCarloSimulation with
\* the same trade list, starting capital and simulation count return the
\* same records, whatever another stream was drawn from before or between
\* the calls.
C26_McDeterminism ==
  (mc.pc # "none" /\ Len(mc.returned) = 2) => mc.returned[1] = mc.returned[2]

\* Two calls have returned records with different worst and best cases, the
\* other stream having been drawn from between them.
C26_Witness ==
  /\ mc.pc = "idle"
  /\ Len(mc.returned) = 2
  /\ mc.returned[1] # Null
  /\ mc.returned[2] # Null
  /\ mc.otherAt[1] < mc.otherAt[2]
  /\ mc.returned[2].worstCase.finalEquity < mc.returned[2].bestCase.finalEquity

\* C27. Monte Carlo on an empty trade list returns null: no stream is made,
\* no simulation is run and no result, with its divisions, is computed.
C27_EmptyList ==
  (mc.pc # "none" /\ mc.trades = <<>>) =>
    /\ mc.pc = "idle"
    /\ mc.rng = NoStream
    /\ mc.sim = 0
    /\ mc.results = <<>>
    /\ \A k \in DOMAIN mc.returned : mc.returned[k] = Null

\* Both calls with the empty list have returned.
C27_Witness ==
  /\ mc.pc = "idle"
  /\ mc.trades = <<>>
  /\ Len(mc.returned) = 2
  /\ mc.returned[1] = Null

\* C28. Unknown ticker is a null result, not a fault: for a ticker without
\* a profile every call of generateIntradayData returns null, no day is
\* pushed, and generateHistoricalData returns the empty series after its
\* numDays iterations.
C28_UnknownTicker ==
  (hist.pc \in {"loop", "done"} /\ hist.ticker = "ZZZZ") =>
    /\ hist.days = <<>>
    /\ hist.calls = hist.d
    /\ hist.pc = "done" => hist.d = hist.numDays
    /\ ENABLED HistNext \/ hist.pc = "done"

\* The series of an unknown ticker has been returned after days were asked
\* for.
C28_Witness ==
  /\ hist.pc = "done"
  /\ hist.ticker = "ZZZZ"
  /\ hist.numDays >= 2
  /\ hist.calls = hist.numDays

\* C29. Historical series calendar: for a known ticker the series returned
\* has exactly numDays day records, their dates strictly increasing and none
\* on a Saturday or Sunday of the local calendar; the first day is generated
\* from the profile's base price and every later day from the closePrice of
\* the day before it.
C29_Calendar ==
  (hist.pc \in {"loop", "done"} /\ hist.ticker = "AAPL") =>
    /\ Len(hist.days) = hist.d
    /\ hist.pc = "done" => Len(hist.days) = hist.numDays
    /\ \A k \in DOMAIN hist.days :
         /\ GetDay(hist.days[k].date, hist.zone) \in 1..5
         /\ k > 1 => /\ hist.days[k].date > hist.days[k - 1].date
                     /\ hist.days[k].basePrice = hist.days[k - 1].closePrice
         /\ k = 1 => hist.days[k].basePrice = BasePrice \div Scale

\* A returned series with a day in the three days before a change of the
\* local clock and a day after it, and closes that differ.
C29_Witness ==
  /\ hist.pc = "done"
  /\ hist.ticker = "AAPL"
  /\ Len(hist.days) >= 3
  /\ hist.zone.shift # 0
  /\ hist.days[1].date > hist.zone.change - 72
  /\ hist.days[1].date < hist.zone.change
  /\ Last(hist.days).date >= hist.zone.change
  /\ hist.days[1].closePrice # hist.days[2].closePrice

\* C30. Tick simulator: getCurrentPrice has no side effect and is
\* idempotent.  The ticks nextTick returns, prices and tick numbers, are the
\* same whether or not getCurrentPrice is called between them; every
\* getCurrentPrice returns the price of the latest tick (the start price
\* before the first), however often it is called; and tickNumber is 1 on
\* the first nextTick and one more on each.
C30_TickSimulator ==
  tick.pc = "live" =>
    /\ \A k \in DOMAIN tick.ticks[1] \cap DOMAIN tick.ticks[2] :
         tick.ticks[1][k] = tick.ticks[2][k]
    /\ \A s \in Simulators :
         /\ \A k \in DOMAIN tick.ticks[s] : tick.ticks[s][k].tickNumber = k
         /\ tick.sims[s].tickCount = Len(tick.ticks[s])
    /\ \A k \in DOMAIN tick.seen :
         tick.seen[k].price =
           IF tick.seen[k].after = 0 THEN Round2(tick.start, TRUE)
           ELSE tick.ticks[1][tick.seen[k].after].price

\* The current price was asked for twice after one tick and again after a
\* later one, the prices of the ticks differ, and the second simulator has
\* produced as many ticks.
C30_Witness ==
  /\ tick.pc = "live"
  /\ Len(tick.seen) >= 3
  /\ tick.seen[1].after >= 1
  /\ tick.seen[1].after = tick.seen[2].after
  /\ tick.seen[2].after < tick.seen[3].after
  /\ tick.seen[2].price # tick.seen[3].price
  /\ Len(tick.ticks[2]) = Len(tick.ticks[1])

\* The step is one iteration of the loop on a candle shaped like bar, taken
\* with a trade open that the candle neither stops out nor times out, under
\* partial profits with the default weights.
C31_Scaling(bar) ==
  /\ ProcessActive(bar)
  /\ config.usePartialProfits
  /\ config.partialProfitPercents = DEFAULT_CONFIG.partialProfitPercents
  /\ ~Truthy(CheckMaxTime(activeTrade, At(bar, idx),
                          CheckStopLoss(activeTrade, At(bar, idx))))

\* The partial exits the step added to the trade.
C31_NewExits ==
  SubSeq(TradeAfter.partialExits, Len(activeTrade.partialExits) + 1,
         Len(TradeAfter.partialExits))

\* The shares the step closed at target t (0 when it closed none there).
C31_Closed(t) ==
  LET at == { k \in DOMAIN C31_NewExits : C31_NewExits[k].target = t + 1 }
  IN IF at = {} THEN 0 ELSE C31_NewExits[CHOOSE k \in at : TRUE].shares

\* The shares that remained when the step came to target t.
C31_Remaining(t) ==
  activeTrade.remainingShares - SeqSum([ u \in 1..t |-> C31_Closed(u - 1) ])

\* The weights from target t on, added up.
C31_Weights(t) ==
  LET w == config.partialProfitPercents
  IN SeqSum([ k \in 1..(Len(w) - t) |-> w[k + t] ])

\* C31. Partial-profit scale-out: with partial profits enabled and the
\* default weights, a candle that reaches unreached target t closes
\* floor(remainingShares x weight[t] / sum of weight[t..last]) shares there,
\* moves the next-target pointer past t and logs a PARTIAL_EXIT signal; a
\* candle that reaches the last target closes all remaining shares and
\* finalizes the trade on that candle with exitReason "Targets Hit" and
\* remainingShares 0.
C31_ScaleOut ==
  [][ \A bar \in PriceBars :
      \A t \in 0..(Len(config.riskRewardTargets) - 1) :
        (/\ C31_Scaling(bar)
         /\ t >= activeTrade.nextTargetIdx
         /\ TargetReached(activeTrade, t, At(bar, idx))) =>
          /\ C31_Closed(t) =
               (C31_Remaining(t) * config.partialProfitPercents[t + 1])
                 \div C31_Weights(t)
          /\ TradeAfter.nextTargetIdx > t
          /\ \E k \in (Len(signals) + 1)..Len(signals') :
               /\ signals'[k].type = "PARTIAL_EXIT"
               /\ signals'[k].target = t + 1
               /\ signals'[k].time = idx
               /\ signals'[k].shares = C31_Closed(t)
          /\ t = Len(config.riskRewardTargets) - 1 =>
               /\ activeTrade' = NoTrade
               /\ Last(trades').exitReason = "Targets Hit"
               /\ Last(trades').exitTime = idx
               /\ Last(trades').remainingShares = 0 ]_vars

\* The step is one iteration of the loop on a candle shaped like bar, taken
\* with a trade open that the candle neither stops out nor times out, under
\* partial profits with the break-even move enabled.
C32_Step(bar) ==
  /\ ProcessActive(bar)
  /\ config.usePartialProfits
  /\ config.breakEvenAfterTarget1
  /\ ~Truthy(CheckMaxTime(activeTrade, At(bar, idx),
                          CheckStopLoss(activeTrade, At(bar, idx))))

\* C32. Break-even stop: with partial profits and breakEvenAfterTarget1
\* enabled, at the end of a candle that reaches the first target,
\* entry +/- rangeSize x riskRewardTargets[0], the currentStop of the trade is
\* its entryPrice, whatever the size of the trade, and it stays there over
\* every later candle.
C32_BreakEven ==
  /\ [][ \A bar \in PriceBars :
           (C32_Step(bar) /\ TargetReached(activeTrade, 0, At(bar, idx))) =>
             TradeAfter.currentStop = activeTrade.entryPrice ]_vars
  /\ [][ (/\ activeTrade # NoTrade
          /\ config.usePartialProfits /\ config.breakEvenAfterTarget1
          /\ activeTrade.nextTargetIdx > 0
          /\ activeTrade.currentStop = activeTrade.entryPrice) =>
           TradeAfter.currentStop = activeTrade.entryPrice ]_vars

\* C33. Every finalized trade records MFE and MAE: each trade runDay returns,
\* whatever its exit reason, carries a maxFavorableExcursion and a
\* maxAdverseExcursion, both >= 0.
C33_Excursions ==
  \A k \in DOMAIN trades :
    /\ "maxFavorableExcursion" \in DOMAIN trades[k]
    /\ "maxAdverseExcursion" \in DOMAIN trades[k]
    /\ trades[k].maxFavorableExcursion >= 0
    /\ trades[k].maxAdverseExcursion >= 0

\* The running peak of a curve at its point k: the largest equity of the
\* points up to it.
C34_Peak(curve, k) == CurveMax(SubSeq(curve, 1, k))

\* The consecutive days, ending with the day of point k, on which the equity
\* was below its running peak.
RECURSIVE C34_DaysBelow(_, _)
C34_DaysBelow(curve, k) ==
  IF curve[k].equity >= C34_Peak(curve, k) THEN 0
  ELSE 1 + C34_DaysBelow(curve, k - 1)

\* C34. Longest drawdown duration: longestDrawdownDays of the metrics is the
\* maximum number of consecutive days on which the equity of the curve is
\* below its running peak, a drawdown not recovered by the last day
\* included, and 0 when the equity never falls below its running peak.
C34_LongestDrawdown ==
  ledger.pc = "done" =>
    \E longest \in 0..ledger.days :
      /\ ledger.metrics.longestDrawdownDays = longest
      /\ \A k \in DOMAIN ledger.equityCurve :
           C34_DaysBelow(ledger.equityCurve, k) <= longest
      /\ longest > 0 =>
           \E k \in DOMAIN ledger.equityCurve :
             C34_DaysBelow(ledger.equityCurve, k) = longest

\* The volume confirmation threshold of the opening range is above the
\* volume of the candle.
C35_BelowThreshold(c) == c.volume * Scale < or.avgVolume * config.volumeMultiplier

\* What the loop decides on a candle of the given prices and volume when no
\* trade is open: the direction it enters in and the size of the position.
C35_Decision(bar, v) ==
  LET c == At([high |-> bar.high, low |-> bar.low, close |-> bar.close,
               volume |-> v], idx)
      direction == EntryDirection(c)
  IN [ direction |-> direction,
       shares |-> IF direction = "NONE" THEN 0 ELSE PositionShares(direction, c),
       broke |-> LongBreak(c) \/ ShortBreak(c) ]

\* C35. Volume confirmation gates entry: with volumeConfirmation enabled no
\* trade is entered, long or short, on a candle whose volume is below
\* avgVolume x volumeMultiplier of the opening range; with it disabled the
\* volume of a candle has no part in what is decided on it, and every candle
\* that breaks out of the range has a direction to enter in.  (The close of
\* the candle a trade was entered on is kept in the variable candle; its
\* other prices and its volume are any that give the step.)
C35_VolumeGate ==
  /\ [][ (/\ pc = "loop" /\ activeTrade = NoTrade /\ activeTrade' # NoTrade
          /\ config.volumeConfirmation) =>
           \A shape \in Candles :
             (C35_BelowThreshold(shape) /\ shape.close = candle'.close) =>
               ~LookForEntry(shape) ]_vars
  /\ []((pc = "loop" /\ activeTrade = NoTrade /\ ~config.volumeConfirmation) =>
          \A bar \in PriceBars :
            /\ Cardinality({ C35_Decision(bar, v) : v \in Volumes }) = 1
            /\ \A v \in Volumes :
                 C35_Decision(bar, v).broke =>
                   C35_Decision(bar, v).direction # "NONE")

\* Under volume confirmation a candle broke out of the range on a volume
\* below the threshold and no trade was entered, although none was open, the
\* day's count allowed one and a position has a size.
C35_Witness ==
  /\ config.volumeConfirmation
  /\ config.positionSizing = "fixed_shares"
  /\ pc = "loop"
  /\ candle.thin
  /\ activeTrade = NoTrade
  /\ tradesCount < config.maxTradesPerDay
  /\ (trades # <<>> => Last(trades).exitTime < idx - 1)

\* C36. No trading inside the opening range or the avoid window: the entry
\* candle of every trade has an index of at least openingRangeMinutes +
\* avoidFirstMinutes, so that no trade is entered on a candle of the opening
\* range or on one of the avoidFirstMinutes candles after it, and every
\* entryTime is after the end time of the opening range.
C36_NoEarlyEntry ==
  pc \in {"loop", "done"} =>
    \A t \in AllTrades :
      /\ t.entryTime >= config.openingRangeMinutes + config.avoidFirstMinutes
      /\ t.entryTime > or.rangeEndTime
      /\ t.entryTime \notin 0..(config.openingRangeMinutes - 1)
      /\ t.entryTime \notin
           config.openingRangeMinutes
             ..(config.openingRangeMinutes + config.avoidFirstMinutes - 1)

\* With an avoid window, a trade entered on the first candle after it.
C36_Witness ==
  /\ config.avoidFirstMinutes > 0
  /\ \E t \in AllTrades :
       t.entryTime = config.openingRangeMinutes + config.avoidFirstMinutes

\* C37. normalRandom terminates and never takes the logarithm of 0: every
\* call returns; the u1 it returns with is not 0; when the first uniform is
\* exactly 0 the re-draw loop runs once and no more, a state of 0 of the
\* stream being followed by states that are not 0; otherwise the loop does
\* not run and exactly two uniforms are taken from the stream.
C37_NormalTerminates ==
  /\ [](gen.redraws <= 1)
  /\ [](streams[1] = Halves(0) =>
          /\ LcgStep(streams[1]) # Halves(0)
          /\ LcgStep(LcgStep(streams[1])) # Halves(0))
  /\ [](gen.pc = "returned" =>
          /\ ~ExactlyZero(gen.u1)
          /\ gen.redraws = (IF ExactlyZero(drawn[1]) THEN 1 ELSE 0)
          /\ Len(drawn) = 2 + gen.redraws
          /\ streams[1] = normalRandom(gen.from).state
          /\ gen.value = normalRandom(gen.from).value)
  /\ (gen.pc = "u1") ~> (gen.pc = "returned")

\* A call, not the first on its stream, that was given 0 for its first
\* uniform and has returned after one re-draw.
C37_Witness ==
  /\ gen.pc = "returned"
  /\ gen.calls = 2
  /\ ExactlyZero(drawn[1])
  /\ gen.redraws = 1
  /\ Len(drawn) = 3

\* The signals of the log of the given type and time.
C38_Signals(type, time) ==
  { k \in DOMAIN signals : signals[k].type = type /\ signals[k].time = time }

\* C38. Signal log pairs every trade: for every trade runDay returns, whatever
\* its exit reason, "End of Day" included, the signal log has exactly one
\* ENTRY signal at its entryTime and exactly one EXIT signal at its exitTime,
\* which carries its exit reason; and the times of the signals do not
\* decrease along the log.
C38_SignalPairs ==
  pc = "done" =>
    /\ \A k \in DOMAIN trades :
         /\ Cardinality(C38_Signals("ENTRY", trades[k].entryTime)) = 1
         /\ Cardinality(C38_Signals("EXIT", trades[k].exitTime)) = 1
         /\ \A j \in C38_Signals("EXIT", trades[k].exitTime) :
              signals[j].reason = trades[k].exitReason
    /\ \A j \in 1..(Len(signals) - 1) : signals[j].time <= signals[j + 1].time

\* C39: in a series produced by generateHistoricalData, Backtester.run
\* passing the first character code times 31337 as baseSeed, no two days
\* consume the same sequence of random draws: the streams of two days of
\* the series are never in the same state after their first draw.
C39_DistinctStreams ==
  (hist.pc \in {"loop", "done"} /\ hist.baseSeed = BaseSeed(hist.ticker)) =>
    \A i, j \in DOMAIN hist.days :
      i # j => hist.days[i].stream # hist.days[j].stream

\* The largest drawdown run recorded in the points of the days of the
\* curve, in cents; 0 if no day was run.
C40_Recorded ==
  LET days == { k \in DOMAIN ledger.equityCurve :
                  ledger.equityCurve[k].day >= 1 }
  IN IF days = {} THEN 0
     ELSE CHOOSE m \in { ledger.equityCurve[k].drawdown : k \in days } :
            \A k \in days : ledger.equityCurve[k].drawdown <= m

\* No point of the curve lies below an earlier point or the starting
\* capital.
C40_NeverBelowPeak ==
  \A k \in DOMAIN ledger.equityCurve :
    /\ ledger.equityCurve[k].equity >= ledger.startingCapital
    /\ \A j \in 1..k : ledger.equityCurve[k].equity >= ledger.equityCurve[j].equity

\* C40: metrics.maxDrawdown, which computeMetrics computes from the equity
\* curve against its own running peak, equals the largest of the drawdown
\* values run recorded in the points of the curve day by day, and it is 0
\* when the curve never falls below its peak.
C40_DrawdownsAgree ==
  ledger.pc = "done" =>
    /\ ledger.metrics.maxDrawdown = C40_Recorded
    /\ C40_NeverBelowPeak => ledger.metrics.maxDrawdown = 0

====
